---- MODULE Spec2Model ----
(***************************************************************************)
(* PID simulator: the PID controllers (pid-controller-enhanced.js and      *)
(* pid-controller.js), the inverted-pendulum physics (BalancingRobot, two  *)
(* variants) and the animation driver (PIDSimulatorApp).                   *)
(*                                                                         *)
(* JavaScript Numbers are modelled as tagged values: a finite number is a  *)
(* fixed-point integer counting thousandths (Fin(1500) is 1.5), and NaN,   *)
(* +Infinity, -Infinity, undefined and null are separate tags, combined by *)
(* the IEEE-754 / ECMAScript rules.  Finite results are rounded to the     *)
(* nearest thousandth; signed zero and overflow of finite values to        *)
(* Infinity (beyond 1.8e308) are not represented.                          *)
(***************************************************************************)
EXTENDS Integers, Sequences, FiniteSets, TLC

\* thousandths per unit: Date.now() differences are milliseconds and the
\* code divides them by 1000 to get seconds
SCALE == 1000

Fin(n) == [k |-> "fin", v |-> n]
NaN == [k |-> "nan", v |-> 0]
PosInf == [k |-> "inf", v |-> 1]
NegInf == [k |-> "inf", v |-> 0 - 1]
Undefined == [k |-> "undef", v |-> 0]
Null == [k |-> "null", v |-> 0]
Zero == Fin(0)
One == Fin(SCALE)

\* n milliseconds divided by 1000, as seconds
Millis(n) == Fin((n * SCALE) \div 1000)

IsFinite(x) == x.k = "fin"
IsNaN(x) == x.k \in {"nan", "undef"}

\* ToNumber: undefined -> NaN, null -> +0
ToNumber(x) ==
    IF x.k = "undef" THEN NaN
    ELSE IF x.k = "null" THEN Zero
    ELSE x

Sgn(n) == IF n > 0 THEN 1 ELSE IF n < 0 THEN 0 - 1 ELSE 0
AbsInt(n) == IF n < 0 THEN 0 - n ELSE n

\* n / d rounded to the nearest integer (d > 0)
RoundDiv(n, d) == (2 * n + d) \div (2 * d)

\* a * b / SCALE rounded to nearest; for large factors the larger one is
\* split so that the intermediate product stays small
MulFix(a, b) ==
    IF AbsInt(a) < 30000 /\ AbsInt(b) < 30000
    THEN RoundDiv(a * b, SCALE)
    ELSE LET big == IF AbsInt(a) >= AbsInt(b) THEN a ELSE b
             small == IF AbsInt(a) >= AbsInt(b) THEN b ELSE a
         IN  (big \div SCALE) * small + RoundDiv((big % SCALE) * small, SCALE)

\* a * SCALE / b rounded to nearest (b # 0)
DivFix(a, b) ==
    LET n == IF b < 0 THEN 0 - a ELSE a
        d == AbsInt(b)
    IN  (n \div d) * SCALE + RoundDiv((n % d) * SCALE, d)

\* the operations on two numbers (finite, NaN or infinite)
NegNum(a) ==
    IF a.k = "fin" THEN Fin(0 - a.v)
    ELSE IF a.k = "nan" THEN NaN
    ELSE [k |-> "inf", v |-> 0 - a.v]

AddNum(a, b) ==
    IF a.k = "fin" /\ b.k = "fin" THEN Fin(a.v + b.v)
    ELSE IF a.k = "nan" \/ b.k = "nan" THEN NaN
    ELSE IF a.k = "inf" /\ b.k = "inf" THEN (IF a.v = b.v THEN a ELSE NaN)
    ELSE IF a.k = "inf" THEN a
    ELSE b

MulNum(a, b) ==
    IF a.k = "fin" /\ b.k = "fin" THEN Fin(MulFix(a.v, b.v))
    ELSE IF a.k = "nan" \/ b.k = "nan" THEN NaN
    ELSE IF Sgn(a.v) * Sgn(b.v) = 0 THEN NaN
    ELSE [k |-> "inf", v |-> Sgn(a.v) * Sgn(b.v)]

DivNum(a, b) ==
    IF a.k = "fin" /\ b.k = "fin"
    THEN (IF b.v # 0 THEN Fin(DivFix(a.v, b.v))
          ELSE IF a.v = 0 THEN NaN
          ELSE [k |-> "inf", v |-> Sgn(a.v)])
    ELSE IF a.k = "nan" \/ b.k = "nan" THEN NaN
    ELSE IF a.k = "inf" /\ b.k = "inf" THEN NaN
    ELSE IF a.k = "inf" THEN [k |-> "inf", v |-> IF b.v < 0 THEN 0 - a.v ELSE a.v]
    ELSE Zero

LtNum(a, b) ==
    IF a.k = "fin" /\ b.k = "fin" THEN a.v < b.v
    ELSE IF a.k = "nan" \/ b.k = "nan" THEN FALSE
    ELSE IF a.k = "inf" THEN (a.v < 0 /\ ~(b.k = "inf" /\ b.v < 0))
    ELSE b.v > 0

LeNum(a, b) == LtNum(a, b) \/ (a.k # "nan" /\ a = b)

MaxNum(a, b) ==
    IF a.k = "nan" \/ b.k = "nan" THEN NaN ELSE IF LtNum(a, b) THEN b ELSE a

MinNum(a, b) ==
    IF a.k = "nan" \/ b.k = "nan" THEN NaN ELSE IF LtNum(b, a) THEN b ELSE a

AbsNum(a) ==
    IF a.k = "fin" THEN Fin(AbsInt(a.v))
    ELSE IF a.k = "nan" THEN NaN
    ELSE PosInf

\* unary minus, +, -, * and / of JavaScript: the operands are evaluated once
\* (the singleton sets bind their values) and converted by ToNumber
Neg(x) == CHOOSE r \in {NegNum(ToNumber(a)) : a \in {x}} : TRUE

Add(x, y) == CHOOSE r \in {AddNum(ToNumber(a), ToNumber(b)) : a \in {x}, b \in {y}} : TRUE

Sub(x, y) == Add(x, Neg(y))

Mul(x, y) == CHOOSE r \in {MulNum(ToNumber(a), ToNumber(b)) : a \in {x}, b \in {y}} : TRUE

Div(x, y) == CHOOSE r \in {DivNum(ToNumber(a), ToNumber(b)) : a \in {x}, b \in {y}} : TRUE

\* x < y, x <= y, x > y, x >= y; any comparison with NaN is false
Lt(x, y) == \E a \in {x}, b \in {y} : LtNum(ToNumber(a), ToNumber(b))

Le(x, y) == \E a \in {x}, b \in {y} : LeNum(ToNumber(a), ToNumber(b))

Gt(x, y) == Lt(y, x)
Ge(x, y) == Le(y, x)

MathMax(x, y) == CHOOSE r \in {MaxNum(ToNumber(a), ToNumber(b)) : a \in {x}, b \in {y}} : TRUE

MathMin(x, y) == CHOOSE r \in {MinNum(ToNumber(a), ToNumber(b)) : a \in {x}, b \in {y}} : TRUE

MathAbs(x) == CHOOSE r \in {AbsNum(ToNumber(a)) : a \in {x}} : TRUE

(***************************************************************************)
(* PIDController, enhanced variant (pid-controller-enhanced.js)            *)
(***************************************************************************)
maxHistoryLength == 1000
integralMax == Fin(50 * SCALE)
integralMin == Fin(0 - 50 * SCALE)
outputMax == Fin(100 * SCALE)
outputMin == Fin(0 - 100 * SCALE)
alpha == Fin(150)
maxRate == Fin(20 * SCALE)

\* new PIDController(kp, ki, kd) constructed at time t
PIDController(kp, ki, kd, t) ==
    [kp |-> kp, ki |-> ki, kd |-> kd,
     setpoint |-> Zero,
     previousError |-> Zero,
     integral |-> Zero,
     lastTime |-> t,
     lastOutput |-> Zero,
     errorHistory |-> << >>,
     outputHistory |-> << >>,
     filteredDerivative |-> Zero,
     lastUpdateTime |-> t]

setParameters(this, kp, ki, kd) ==
    [this EXCEPT !.kp = kp, !.ki = ki, !.kd = kd]

\* gains set on a controller whose accumulators are cleared with them
setGainsResetting(this, kp, ki, kd) ==
    [this EXCEPT !.kp = kp, !.ki = ki, !.kd = kd,
                 !.integral = Zero, !.previousError = Zero]

\* prototype.setGains(kp, ki, kd), added to the class in a browser
setGains(this, kp, ki, kd) ==
    [this EXCEPT !.kp = kp, !.ki = ki, !.kd = kd]

\* a reset that keeps the histories
resetKeepingHistory(this, t) ==
    [this EXCEPT !.previousError = Zero,
                 !.integral = Zero,
                 !.filteredDerivative = Zero,
                 !.lastTime = t,
                 !.lastOutput = Zero]

\* a reset that halves the integral instead of zeroing it
resetSoft(this, t) ==
    [this EXCEPT !.previousError = Zero,
                 !.integral = Mul(this.integral, Fin(500)),
                 !.filteredDerivative = Zero,
                 !.lastTime = t,
                 !.errorHistory = << >>,
                 !.outputHistory = << >>,
                 !.lastOutput = Zero]

\* reset(), read at clock t
reset(this, t) ==
    [this EXCEPT !.previousError = Zero,
                 !.integral = Zero,
                 !.filteredDerivative = Zero,
                 !.lastTime = t,
                 !.errorHistory = << >>,
                 !.outputHistory = << >>,
                 !.lastOutput = Zero]

\* a history trimmed at its newest end
trimHistoryNewest(pushed) ==
    IF Len(pushed) > maxHistoryLength THEN SubSeq(pushed, 1, maxHistoryLength) ELSE pushed

\* "Limit history length": shift() once the array is longer than the maximum
trimHistory(pushed) ==
    CHOOSE r \in {IF Len(h) > maxHistoryLength THEN Tail(h) ELSE h : h \in {pushed}} : TRUE

storeHistory(this, error, output, components, t) ==
    [this EXCEPT
        !.errorHistory = trimHistory(Append(this.errorHistory, error)),
        !.outputHistory =
            trimHistory(Append(this.outputHistory,
                               [output |-> output, timestamp |-> t,
                                components |-> components]))]

\* the timestep calculate works with: the argument, or the wall-clock time
\* since the previous call when the argument is null
elapsedTime(this, deltaTimeArg, currentTime) ==
    IF deltaTimeArg = Null THEN Millis(currentTime - this.lastTime) ELSE deltaTimeArg

\* "Prevent division by zero or negative time"
safeDeltaTime(dt) == IF Le(dt, Zero) THEN Fin(1) ELSE dt

\* an accumulator without its limits
antiWindupOff(x) == x

\* "Anti-windup: limit integral term"
antiWindup(x) == MathMax(integralMin, MathMin(integralMax, x))

\* "Rate limiting (slew rate)"
slewLimit(lastOutput, maxChange, x) ==
    MathMax(Sub(lastOutput, maxChange), MathMin(Add(lastOutput, maxChange), x))

\* "Apply output limits"
clampOutput(x) == MathMax(outputMin, MathMin(outputMax, x))

\* the terms of the control law for one call: error, the clamped accumulator,
\* the filtered derivative, the three components and the limited output
calculateTerms(this, setpoint, currentValue, deltaTime) ==
    LET error == Sub(setpoint, currentValue)
        proportional == Mul(this.kp, error)
        acc == antiWindup(Add(this.integral, Mul(error, deltaTime)))
        integral == Mul(this.ki, acc)
        hasDt == Gt(deltaTime, Zero)
        rawDerivative == Div(Sub(error, this.previousError), deltaTime)
        filtered == IF hasDt
                    THEN Add(Mul(alpha, rawDerivative),
                             Mul(Sub(One, alpha), this.filteredDerivative))
                    ELSE this.filteredDerivative
        derivative == IF hasDt THEN Mul(this.kd, filtered) ELSE Zero
        total == Add(Add(proportional, integral), derivative)
        maxChange == Mul(maxRate, deltaTime)
        limited == slewLimit(this.lastOutput, maxChange, total)
    IN  [error |-> error,
         acc |-> acc,
         filtered |-> filtered,
         components |-> [p |-> proportional, i |-> integral, d |-> derivative],
         output |-> clampOutput(limited)]

\* "Store values for next iteration" and "Store history for analysis"
calculateStore(this, setpoint, c, currentTime) ==
    [this |-> storeHistory([this EXCEPT !.setpoint = setpoint,
                                        !.integral = c.acc,
                                        !.filteredDerivative = c.filtered,
                                        !.previousError = c.error,
                                        !.lastTime = currentTime,
                                        !.lastOutput = c.output],
                           c.error, c.output, c.components, currentTime),
     output |-> c.output]

\* calculate(setpoint, currentValue, deltaTime) at wall-clock time currentTime:
\* the controller afterwards and the returned output
calculate(this, setpoint, currentValue, deltaTimeArg, currentTime) ==
    CHOOSE r \in
        {calculateStore(this, setpoint, c, currentTime) :
            c \in {calculateTerms(this, setpoint, currentValue,
                                  safeDeltaTime(elapsedTime(this, deltaTimeArg,
                                                            currentTime)))}} : TRUE

\* update(currentValue): alias, calculate(this.setpoint, currentValue)
update(this, currentValue, currentTime) ==
    calculate(this, this.setpoint, currentValue, Null, currentTime)

MathPI == Fin(3142)

\* sum of the numbers of a sequence, as reduce((a, b) => a + b, 0)
RECURSIVE SumSeq(_)
SumSeq(s) == IF s = << >> THEN Zero ELSE Add(SumSeq(SubSeq(s, 1, Len(s) - 1)), s[Len(s)])

\* sum of the absolute values, as reduce((a, b) => a + Math.abs(b), 0)
RECURSIVE SumAbs(_)
SumAbs(s) == IF s = << >> THEN Zero ELSE Add(SumAbs(SubSeq(s, 1, Len(s) - 1)), MathAbs(s[Len(s)]))

autoTuneSteps == 1000
autoTuneDt == Fin(20)
minPeriod == Fin(100)

\* the bookkeeping of one pass of autoTune's for loop, index i, after its
\* calculate call has returned r
autoTuneDetect(st, r, cycles, i) ==
    LET output == r.output
        crossing == Lt(Mul(st.lastOutput, output), Zero)
        period == Mul(Fin((i - st.lastCrossing) * SCALE), autoTuneDt)
        peaks == IF crossing /\ Gt(period, minPeriod)
                 THEN Append(st.peaks, [time |-> Mul(Fin(i * SCALE), autoTuneDt),
                                        value |-> output,
                                        period |-> period])
                 ELSE st.peaks
    IN  [this |-> r.this,
         peaks |-> peaks,
         lastOutput |-> output,
         lastCrossing |-> IF crossing THEN i ELSE st.lastCrossing,
         stop |-> Len(peaks) >= cycles * 2]

\* one pass of autoTune's for loop body, for loop index i
autoTuneStep(st, processVariable, setpoint, cycles, currentTime, i) ==
    CHOOSE next \in
        {autoTuneDetect(st, r, cycles, i) :
            r \in {calculate(st.this, setpoint, processVariable, autoTuneDt,
                             currentTime)}} : TRUE

\* the for loop over the indices lo .. hi-1 (for (i = 0; i < 1000; i++) { ...;
\* if (...) break; }), nothing being done once the loop has been left; the
\* range is halved so that the evaluation stays shallow
RECURSIVE autoTuneLoop(_, _, _, _, _, _, _)
autoTuneLoop(st, processVariable, setpoint, cycles, currentTime, lo, hi) ==
    IF st.stop \/ lo >= hi THEN st
    ELSE IF hi - lo = 1
         THEN autoTuneStep(st, processVariable, setpoint, cycles, currentTime, lo)
    ELSE CHOOSE last \in
             {autoTuneLoop(half, processVariable, setpoint, cycles, currentTime,
                           (lo + hi) \div 2, hi) :
                 half \in {autoTuneLoop(st, processVariable, setpoint, cycles,
                                        currentTime, lo, (lo + hi) \div 2)}} : TRUE

\* a test that two peaks pass
enoughPeaksTwo(n) == n >= 2

\* a test that any number of peaks passes
enoughPeaksAlways(n) == n >= 0

\* "if we have enough data": peaks.length >= 4
enoughPeaks(n) == n >= 4

\* autoTune without its "Restore state"
restoreStateOff(tuned, currentIntegral, currentDerivative, currentError) == tuned

\* "Restore state" at the end of autoTune
restoreState(tuned, currentIntegral, currentDerivative, currentError) ==
    [tuned EXCEPT !.integral = currentIntegral,
                  !.filteredDerivative = currentDerivative,
                  !.previousError = currentError]

\* the end of autoTune, st being the state in which the loop was left: the
\* new gains when at least 4 peaks were found, the restored accumulators and
\* the report
autoTuneFinish(this, st) ==
    LET kp == this.kp
        currentIntegral == this.integral
        currentDerivative == this.filteredDerivative
        currentError == this.previousError
        peaks == st.peaks
        n == Len(peaks)
        periods == [j \in 1..(n - 1) |-> Sub(peaks[j + 1].time, peaks[j].time)]
        amplitudes == [j \in 1..(n - 1) |-> peaks[j + 1].value]
        avgPeriod == Div(SumSeq(periods), Fin((n - 1) * SCALE))
        avgAmplitude == Div(SumAbs(amplitudes), Fin((n - 1) * SCALE))
        ku == Div(Mul(Fin(4 * SCALE), kp), Mul(MathPI, avgAmplitude))
        pu == avgPeriod
        tuned == IF enoughPeaks(n)
                 THEN [st.this EXCEPT !.kp = Mul(Fin(600), ku),
                                      !.ki = Div(Mul(Fin(1200), ku), pu),
                                      !.kd = Mul(Mul(Fin(75), ku), pu)]
                 ELSE st.this
        restored == restoreState(tuned, currentIntegral, currentDerivative, currentError)
    IN  [this |-> restored,
         result |-> [success |-> enoughPeaks(n),
                     cycles |-> n \div 2,
                     period |-> IF n >= 2
                                THEN Div(Sub(peaks[n].time, peaks[1].time), Fin((n - 1) * SCALE))
                                ELSE Zero,
                     amplitude |-> IF n > 0
                                   THEN Div(SumAbs([j \in 1..n |-> peaks[j].value]), Fin(n * SCALE))
                                   ELSE Zero,
                     newParams |-> [kp |-> restored.kp, ki |-> restored.ki, kd |-> restored.kd]]]

\* autoTune(processVariable, setpoint, cycles): the controller afterwards and
\* the returned report
autoTune(this, processVariable, setpoint, cycles, currentTime) ==
    CHOOSE r \in
        {autoTuneFinish(this, st) :
            st \in {autoTuneLoop([this |-> this, peaks |-> << >>, lastOutput |-> Zero,
                                  lastCrossing |-> 0, stop |-> FALSE],
                                 processVariable, setpoint, cycles, currentTime,
                                 0, autoTuneSteps)}} : TRUE


(***************************************************************************)
(* The analytics of the enhanced variant.  A method is given as the        *)
(* controller it leaves behind together with what it returns.              *)
(***************************************************************************)
\* array.splice(-n): the last n entries are taken out of the array
splice(array, n) ==
    [array |-> IF n = 0 \/ n >= Len(array) THEN << >> ELSE SubSeq(array, 1, Len(array) - n),
     result |-> IF n = 0 \/ n >= Len(array) THEN array
                ELSE SubSeq(array, Len(array) - n + 1, Len(array))]

\* array.slice(-n): the array as it is left and the copy of its last n
\* entries, of all of them when n is 0 (slice(-0) is slice(0)) or exceeds the
\* length
slice(array, n) ==
    [array |-> array,
     result |-> IF n = 0 \/ n >= Len(array) THEN array
                ELSE SubSeq(array, Len(array) - n + 1, Len(array))]

\* array.slice(from, to) for the entries number from+1 .. to
sliceBetween(array, from, to) ==
    IF from >= to THEN << >> ELSE SubSeq(array, from + 1, to)

\* terms.reduce((a, b) => a + b, 0) over the entries number lo+1 .. hi
RECURSIVE reduceSum(_, _, _)
reduceSum(terms, lo, hi) ==
    IF lo >= hi THEN Zero
    ELSE IF hi - lo = 1 THEN Add(Zero, terms[hi])
    ELSE Add(reduceSum(terms, lo, (lo + hi) \div 2), reduceSum(terms, (lo + hi) \div 2, hi))

\* the sum of f over an array, f given as the array of its values
sumOf(terms) == CHOOSE r \in {reduceSum(t, 0, Len(t)) : t \in {terms}} : TRUE

\* the largest r in lo .. hi with r * r <= n
RECURSIVE floorSqrt(_, _, _)
floorSqrt(n, lo, hi) ==
    IF lo >= hi THEN lo
    ELSE LET mid == (lo + hi + 1) \div 2
         IN  IF mid * mid <= n THEN floorSqrt(n, mid, hi) ELSE floorSqrt(n, lo, mid - 1)

\* Math.sqrt, to a thousandth below 2000 and to a unit above
MathSqrt(x) ==
    CHOOSE r \in
        {IF a.k = "fin"
         THEN (IF a.v < 0 THEN NaN
               ELSE IF a.v < 2000 * SCALE THEN Fin(floorSqrt(a.v * SCALE, 0, 46340))
               ELSE Fin(floorSqrt(a.v \div SCALE, 0, 46340) * SCALE))
         ELSE IF a.k = "inf" /\ a.v > 0 THEN PosInf
         ELSE NaN : a \in {ToNumber(x)}} : TRUE

\* the class of a mean absolute error
stabilityClass(avgError) ==
    IF Lt(avgError, Fin(100)) THEN "Very Stable"
    ELSE IF Lt(avgError, Fin(300)) THEN "Stable"
    ELSE IF Lt(avgError, Fin(1000)) THEN "Settling"
    ELSE IF Lt(avgError, Fin(3000)) THEN "Oscillating"
    ELSE "Unstable"

\* recentErrors.reduce((a, b) => a + Math.abs(b), 0) / recentErrors.length
meanAbs(errors) ==
    Div(sumOf([i \in 1..Len(errors) |-> MathAbs(errors[i])]), Fin(Len(errors) * SCALE))

getStabilityStatus(this) ==
    IF Len(this.errorHistory) < 10 THEN [this |-> this, result |-> "Initializing"]
    ELSE CHOOSE r \in
             {[this |-> [this EXCEPT !.errorHistory = recentErrors.array],
               result |-> stabilityClass(meanAbs(recentErrors.result))] :
                 recentErrors \in {slice(this.errorHistory, 10)}} : TRUE

getRMSError(this, windowSize) ==
    IF Len(this.errorHistory) < windowSize THEN [this |-> this, result |-> Zero]
    ELSE CHOOSE r \in
             {[this |-> [this EXCEPT !.errorHistory = recent.array],
               result |->
                   MathSqrt(Div(sumOf([i \in 1..Len(recent.result) |->
                                          Mul(recent.result[i], recent.result[i])]),
                                Fin(Len(recent.result) * SCALE)))] :
                 recent \in {slice(this.errorHistory, windowSize)}} : TRUE

\* getPerformanceMetrics(), the default window of getRMSError being 50
getPerformanceMetrics(this) ==
    CHOOSE r \in
        {[this |-> rmse.this,
          result |->
              [k |-> "object",
               stability |-> stability.result,
               rmse |-> rmse.result,
               currentError |-> IF Len(rmse.this.errorHistory) > 0
                                THEN rmse.this.errorHistory[Len(rmse.this.errorHistory)]
                                ELSE Zero,
               avgError |-> IF Len(rmse.this.errorHistory) > 0
                            THEN meanAbs(rmse.this.errorHistory)
                            ELSE Zero,
               output |-> rmse.this.lastOutput,
               integral |-> rmse.this.integral,
               derivative |-> rmse.this.filteredDerivative]] :
            rmse \in {getRMSError(stability.this, 50) :
                         stability \in {getStabilityStatus(this)}},
            stability \in {getStabilityStatus(this)}} : TRUE

\* the sum of the integers of an array, entries number lo+1 .. hi
RECURSIVE sumInts(_, _, _)
sumInts(ints, lo, hi) ==
    IF lo >= hi THEN 0
    ELSE IF hi - lo = 1 THEN ints[hi]
    ELSE sumInts(ints, lo, (lo + hi) \div 2) + sumInts(ints, (lo + hi) \div 2, hi)

\* the product of an integer and a number, and the quotient of a number by an
\* integer: the index sums of the regression are integers, and exact
MulInt(i, x) ==
    CHOOSE r \in
        {IF a.k = "fin" THEN Fin(i * a.v)
         ELSE IF a.k = "nan" \/ i = 0 THEN NaN
         ELSE [k |-> "inf", v |-> Sgn(i) * a.v] : a \in {ToNumber(x)}} : TRUE

DivInt(x, i) ==
    CHOOSE r \in
        {IF a.k = "fin"
         THEN (IF i # 0 THEN Fin(Sgn(i) * Sgn(a.v) * RoundDiv(AbsInt(a.v), AbsInt(i)))
               ELSE IF a.v = 0 THEN NaN
               ELSE [k |-> "inf", v |-> Sgn(a.v)])
         ELSE IF a.k = "nan" THEN NaN
         ELSE [k |-> "inf", v |-> IF i < 0 THEN 0 - a.v ELSE a.v] : a \in {ToNumber(x)}} : TRUE

\* getErrorTrend(windowSize): the slope of the regression line of the last
\* windowSize errors over their indices 0 .. n-1
getErrorTrend(this, windowSize) ==
    IF Len(this.errorHistory) < windowSize THEN [this |-> this, result |-> Zero]
    ELSE CHOOSE r \in
             {[this |-> [this EXCEPT !.errorHistory = recent.array],
               result |->
                   LET y == recent.result
                       n == Len(y)
                       xSum == sumInts([i \in 1..n |-> i - 1], 0, n)
                       ySum == sumOf(y)
                       xySum == sumOf([i \in 1..n |-> MulInt(i - 1, y[i])])
                       xSqSum == sumInts([i \in 1..n |-> (i - 1) * (i - 1)], 0, n)
                   IN  DivInt(Sub(MulInt(n, xySum), MulInt(xSum, ySum)),
                              n * xSqSum - xSum * xSum)] :
                 recent \in {slice(this.errorHistory, windowSize)}} : TRUE


(***************************************************************************)
(* PIDController, basic variant (pid-controller.js)                        *)
(***************************************************************************)
basicIntegralMax == Fin(100 * SCALE)
basicIntegralMin == Fin(0 - 100 * SCALE)
basicOutputMax == Fin(50 * SCALE)
basicOutputMin == Fin(0 - 50 * SCALE)

\* new PIDController(kp, ki, kd) constructed at time t
BasicPIDController(kp, ki, kd, t) ==
    [kp |-> kp, ki |-> ki, kd |-> kd,
     setpoint |-> Zero,
     previousError |-> Zero,
     integral |-> Zero,
     lastTime |-> t,
     errorHistory |-> << >>,
     outputHistory |-> << >>]

basicSetGains(this, kp, ki, kd) ==
    [this EXCEPT !.kp = kp, !.ki = ki, !.kd = kd]

basicSetSetpoint(this, setpoint) ==
    [this EXCEPT !.setpoint = setpoint]

basicReset(this, t) ==
    [this EXCEPT !.previousError = Zero,
                 !.integral = Zero,
                 !.lastTime = t,
                 !.errorHistory = << >>,
                 !.outputHistory = << >>]

\* "Integral term (with windup protection)"
basicAntiWindup(x) == MathMax(basicIntegralMin, MathMin(basicIntegralMax, x))

\* "Apply output limits"
basicClampOutput(x) == MathMax(basicOutputMin, MathMin(basicOutputMax, x))

\* the wall-clock timestep update works with
basicElapsedTime(this, currentTime) == Millis(currentTime - this.lastTime)

\* the body of update(currentValue) past the deltaTime guard, for timestep
\* deltaTime: the controller afterwards and the returned result object
basicStep(this, currentValue, deltaTime, currentTime) ==
    LET error == Sub(this.setpoint, currentValue)
        proportional == Mul(this.kp, error)
        acc == basicAntiWindup(Add(this.integral, Mul(error, deltaTime)))
        integral == Mul(this.ki, acc)
        derivative == Div(Mul(this.kd, Sub(error, this.previousError)), deltaTime)
        output == basicClampOutput(Add(Add(proportional, integral), derivative))
        eh == Append(this.errorHistory, error)
        oh == Append(this.outputHistory, output)
        full == Len(eh) > maxHistoryLength
    IN  [this |-> [this EXCEPT !.integral = acc,
                               !.previousError = error,
                               !.lastTime = currentTime,
                               !.errorHistory = IF full THEN Tail(eh) ELSE eh,
                               !.outputHistory = IF full THEN Tail(oh) ELSE oh],
         result |-> [k |-> "object",
                     output |-> output,
                     error |-> error,
                     proportional |-> proportional,
                     integral |-> integral,
                     derivative |-> derivative]]

\* update(currentValue): returns the number 0 and does nothing more when no
\* time has passed since the previous call
basicUpdate(this, currentValue, currentTime) ==
    LET deltaTime == basicElapsedTime(this, currentTime)
    IN  IF Le(deltaTime, Zero)
        THEN [this |-> this, result |-> Zero]
        ELSE basicStep(this, currentValue, deltaTime, currentTime)


(***************************************************************************)
(* The analytics of the basic variant                                      *)
(***************************************************************************)
\* getStabilityStatus(error): the class of the error handed in
basicGetStabilityStatus(this, error) ==
    [this |-> this,
     result |-> CHOOSE r \in
                    {IF Lt(absError, Fin(500)) THEN "Stable"
                     ELSE IF Lt(absError, Fin(2000)) THEN "Settling"
                     ELSE IF Lt(absError, Fin(5000)) THEN "Oscillating"
                     ELSE "Unstable" : absError \in {MathAbs(error)}} : TRUE]

\* the mean of an array: reduce((a, b) => a + b, 0) / length
meanOf(array) == Div(sumOf(array), Fin(Len(array) * SCALE))

\* getErrorTrend(samples): the mean of the last samples errors minus the mean
\* of the samples before them
basicGetErrorTrend(this, samples) ==
    IF Len(this.errorHistory) < samples THEN [this |-> this, result |-> Zero]
    ELSE CHOOSE r \in
             {[this |-> [this EXCEPT !.errorHistory = recent.array],
               result |->
                   LET len == Len(recent.array)
                       older == sliceBetween(recent.array,
                                             IF len > 2 * samples THEN len - 2 * samples ELSE 0,
                                             IF samples = 0 THEN 0 ELSE len - samples)
                   IN  IF Len(older) = 0 THEN Zero
                       ELSE Sub(meanOf(recent.result), meanOf(older))] :
                 recent \in {slice(this.errorHistory, samples)}} : TRUE

\* getSettlingTime(): 0.016 s for every sample from the last one whose error
\* is beyond 2% of the setpoint
getSettlingTime(this) ==
    LET threshold == Mul(Fin(20), MathAbs(this.setpoint))
        beyond == {i \in 1..Len(this.errorHistory) :
                      Gt(MathAbs(this.errorHistory[i]), threshold)}
    IN  [this |-> this,
         result |-> IF beyond = {} THEN Zero
                    ELSE CHOOSE r \in
                             {Mul(Fin((Len(this.errorHistory) - (settlingIndex - 1)) * SCALE),
                                  Fin(16)) :
                                 settlingIndex \in {i \in beyond : \A j \in beyond : j <= i}} :
                             TRUE]

\* Math.max over the entries number lo+1 .. hi of an array
RECURSIVE reduceMax(_, _, _)
reduceMax(array, lo, hi) ==
    IF lo >= hi THEN NegInf
    ELSE IF hi - lo = 1 THEN Add(Zero, array[hi])
    ELSE MathMax(reduceMax(array, lo, (lo + hi) \div 2), reduceMax(array, (lo + hi) \div 2, hi))

\* getOvershoot(): the largest absolute error in percent of the setpoint (of 1
\* when the setpoint is 0)
getOvershoot(this) ==
    IF Len(this.errorHistory) < 10 THEN [this |-> this, result |-> Zero]
    ELSE CHOOSE r \in
             {[this |-> this,
               result |-> Mul(Div(maxError, setpointRange), Fin(100 * SCALE))] :
                 maxError \in {reduceMax(abs, 0, Len(abs)) :
                                  abs \in {[i \in 1..Len(this.errorHistory) |->
                                              MathAbs(this.errorHistory[i])]}},
                 setpointRange \in {IF a.k = "inf" \/ (a.k = "fin" /\ a.v # 0) THEN a ELSE One :
                                       a \in {MathAbs(this.setpoint)}}} : TRUE

\* getPerformanceMetrics(), the default samples of getErrorTrend being 10
basicGetPerformanceMetrics(this) ==
    CHOOSE r \in
        {[this |-> errorTrend.this,
          result |->
              [k |-> "object",
               settlingTime |-> settlingTime.result,
               overshoot |-> overshoot.result,
               steadyStateError |-> IF Len(this.errorHistory) > 0
                                    THEN MathAbs(this.errorHistory[Len(this.errorHistory)])
                                    ELSE Zero,
               errorTrend |-> errorTrend.result]] :
            settlingTime \in {getSettlingTime(this)},
            overshoot \in {getOvershoot(this)},
            errorTrend \in {basicGetErrorTrend(this, 10)}} : TRUE


(***************************************************************************)
(* BalancingRobot: physics state of the two variants.  The rendering state *)
(* (trail, groundOffset, groundSpeed, canvas geometry) is left out.        *)
(***************************************************************************)
mass == Fin(1 * SCALE)
length == Fin(500)
gravity == Fin(9810)
friction == Fin(100)
\* a disturbance that does not decay
disturbanceDecayOff == One

disturbanceDecay == Fin(950)
groundFriction == Fin(980)
halfPI == Fin(1571)

\* Math.sin of a finite number of thousandths of a radian, in thousandths:
\* the argument is reduced to [0, pi] and Bhaskara's rational approximation
\* 16u(pi - u) / (5 pi^2 - 4u(pi - u)) is used (within 0.002 of the sine)
SinFix(x) ==
    LET t == x % 6283
        neg == t > 3142
        u == IF neg THEN t - 3142 ELSE t
        p == u * (3142 - u)
        val == RoundDiv(160 * p, (5 * 3142 * 3142 - 4 * p) \div 100)
    IN  IF neg THEN 0 - val ELSE val

MathSin(x) ==
    LET a == ToNumber(x)
    IN  IF a.k = "fin" THEN Fin(SinFix(a.v)) ELSE NaN

\* new BalancingRobot(canvas[, pidController]) constructed at time t
BalancingRobot(t) ==
    [angle |-> Zero,
     angularVelocity |-> Zero,
     angularAcceleration |-> Zero,
     position |-> Zero,
     velocity |-> Zero,
     torque |-> Zero,
     disturbanceForce |-> Zero,
     lastTime |-> t]

\* what a canvas argument can be: missing, a canvas whose getContext('2d')
\* returns null, a canvas with a context
Canvases == {"none", "noContext", "canvas"}

\* what a pidController argument can be: missing, an object that is no
\* instance of window.PIDController, a controller
Controllers == {"none", "other", "controller"}

\* the constructor of the newer variant at time t, given the controller p when
\* the argument is a controller: the error it throws, or the robot and the
\* controller the robot holds
newBalancingRobot(canvas, pidController, p, t) ==
    IF canvas = "none"
    THEN [k |-> "error", message |-> "Canvas element is required"]
    ELSE IF canvas = "noContext"
    THEN [k |-> "error", message |-> "Failed to get 2D context from canvas"]
    ELSE [k |-> "object",
          robot |-> BalancingRobot(t),
          pidController |-> IF pidController # "controller"
                            THEN PIDController(Fin(2500), Fin(100), Fin(800), t)
                            ELSE p]

\* the constructor of the older variant: canvas.getContext fails on a missing
\* canvas, a null context is stored as it is
oldNewBalancingRobot(canvas, t) ==
    IF canvas = "none"
    THEN [k |-> "error", message |-> "TypeError"]
    ELSE [k |-> "object", robot |-> BalancingRobot(t)]

\* BalancingRobot.createDefault(canvas): null without a canvas and when the
\* constructor throws
createDefault(canvas, t) ==
    IF canvas = "none" THEN Null
    ELSE CHOOSE r \in
             {IF made.k = "error" THEN Null ELSE made :
                 made \in {newBalancingRobot(canvas, "controller",
                                             PIDController(Fin(2500), Fin(100), Fin(800), t),
                                             t)}} : TRUE

\* a reset that leaves the disturbance force in place
robotResetKeepingForce(this, t) ==
    [this EXCEPT !.angle = Zero,
                 !.angularVelocity = Zero,
                 !.angularAcceleration = Zero,
                 !.position = Zero,
                 !.velocity = Zero,
                 !.torque = Zero,
                 !.lastTime = t]

\* reset() of the newer variant, without its call of pidController.reset()
robotReset(this, t) ==
    [this EXCEPT !.angle = Zero,
                 !.angularVelocity = Zero,
                 !.angularAcceleration = Zero,
                 !.position = Zero,
                 !.velocity = Zero,
                 !.torque = Zero,
                 !.disturbanceForce = Zero,
                 !.lastTime = t]

\* reset() of the older variant; random is the value of
\* Math.random() * 0.2 - 0.1
oldRobotReset(this, random, t) ==
    [this EXCEPT !.angle = random,
                 !.angularVelocity = Zero,
                 !.angularAcceleration = Zero,
                 !.position = Zero,
                 !.velocity = Zero,
                 !.torque = Zero,
                 !.disturbanceForce = Zero,
                 !.lastTime = t]

\* a disturbance added to the one still active
applyDisturbanceAdding(this, force) ==
    [this EXCEPT !.disturbanceForce = Add(@, force)]

\* applyDisturbance(force)
applyDisturbance(this, force) == [this EXCEPT !.disturbanceForce = force]

setTorque(this, torque) == [this EXCEPT !.torque = torque]

getAngleDegrees(this) == Div(Mul(this.angle, Fin(180 * SCALE)), MathPI)

getState(this) ==
    [angle |-> this.angle,
     angleDegrees |-> getAngleDegrees(this),
     angularVelocity |-> this.angularVelocity,
     angularAcceleration |-> this.angularAcceleration,
     torque |-> this.torque,
     position |-> this.position,
     velocity |-> this.velocity]

\* the angle left unclamped
clampAngleOff(x) == x

\* "Limit angle to prevent complete flip"
clampAngle(x) == MathMax(Neg(halfPI), MathMin(halfPI, x))

\* m * l * l
inertia == Mul(Mul(mass, length), length)

\* a timestep taken from the clock reading itself
robotDeltaTimeAbsolute(this, currentTime) ==
    MathMin(Millis(currentTime), Fin(100))

\* the capped wall-clock timestep of update(), newer variant
robotDeltaTime(this, currentTime) ==
    MathMin(Millis(currentTime - this.lastTime), Fin(100))

\* a guard that lets a zero timestep through
robotSkipsNegative(deltaTime) == IsNaN(deltaTime) \/ Lt(deltaTime, Zero)

\* the guard of update(), newer variant: the step is skipped
robotSkips(deltaTime) == IsNaN(deltaTime) \/ Le(deltaTime, Zero)

\* update(), newer variant, at wall-clock time currentTime
robotUpdate(this, currentTime) ==
    LET deltaTime == robotDeltaTime(this, currentTime)
        gravityTerm == Mul(Div(gravity, length), MathSin(this.angle))
        dampingTerm == Mul(Div(friction, inertia), this.angularVelocity)
        controlTerm == Div(this.torque, inertia)
        disturbanceTerm == Div(this.disturbanceForce, inertia)
        angularAcceleration ==
            Add(Add(Sub(gravityTerm, dampingTerm), controlTerm), disturbanceTerm)
        angularVelocity == Add(this.angularVelocity, Mul(angularAcceleration, deltaTime))
        angle == Add(this.angle, Mul(angularVelocity, deltaTime))
        targetSpeed == Mul(MathSin(angle), Fin(5 * SCALE))
        acceleration == Mul(Sub(targetSpeed, this.velocity), Fin(2 * SCALE))
        velocity == Mul(Add(this.velocity, Mul(acceleration, deltaTime)), groundFriction)
    IN  IF robotSkips(deltaTime)
        THEN [this EXCEPT !.lastTime = currentTime]
        ELSE [this EXCEPT !.lastTime = currentTime,
                          !.angularAcceleration = angularAcceleration,
                          !.angularVelocity = angularVelocity,
                          !.velocity = velocity,
                          !.disturbanceForce = Mul(this.disturbanceForce, disturbanceDecay),
                          !.angle = clampAngle(angle)]

\* the capped wall-clock timestep of update(), older variant
oldRobotDeltaTime(this, currentTime) ==
    MathMin(Millis(currentTime - this.lastTime), Fin(20))

\* the guard of update(), older variant: the step is skipped
oldRobotSkips(deltaTime) == Le(deltaTime, Zero)

\* update(), older variant, at wall-clock time currentTime
oldRobotUpdate(this, currentTime) ==
    LET deltaTime == oldRobotDeltaTime(this, currentTime)
        gravityTerm == Mul(Div(gravity, length), MathSin(this.angle))
        frictionTerm == Mul(Div(friction, inertia), this.angularVelocity)
        controlTerm == Div(this.torque, inertia)
        disturbanceTerm == Div(this.disturbanceForce, inertia)
        angularAcceleration ==
            Add(Add(Sub(gravityTerm, frictionTerm), controlTerm), disturbanceTerm)
        angularVelocity == Add(this.angularVelocity, Mul(angularAcceleration, deltaTime))
        angle == Add(this.angle, Mul(angularVelocity, deltaTime))
        horizontalAcceleration == Mul(Mul(MathSin(angle), gravity), Fin(500))
        velocity == Mul(Add(this.velocity, Mul(horizontalAcceleration, deltaTime)),
                        groundFriction)
    IN  IF oldRobotSkips(deltaTime)
        THEN [this EXCEPT !.lastTime = currentTime]
        ELSE [this EXCEPT !.lastTime = currentTime,
                          !.angularAcceleration = angularAcceleration,
                          !.angularVelocity = angularVelocity,
                          !.velocity = velocity,
                          !.position = Add(this.position, Mul(velocity, deltaTime)),
                          !.disturbanceForce = Mul(this.disturbanceForce, disturbanceDecay),
                          !.angle = clampAngle(angle)]


(***************************************************************************)
(* State                                                                   *)
(***************************************************************************)
VARIABLES
    now,            \* Date.now(), in milliseconds
    pidVariant,     \* which PIDController class is loaded: "enhanced" or "basic"
    pid,            \* the PIDController instance
    robotVariant,   \* which BalancingRobot class is loaded: "new" or "old"
    robot,          \* the BalancingRobot instance
    app,            \* the PIDSimulatorApp fields
    frames,         \* ids of the pending requestAnimationFrame callbacks
    pc,             \* position inside a running animate() call, or "idle"
    tick,           \* locals of the current (or last) animate() call
    call,           \* the last call made on the controller or the robot
    steps,          \* number of events so far
    limit,          \* number of events explored
    twin            \* a second, independent run of the same control loop

vars == <<now, pidVariant, pid, robotVariant, robot, app, frames, pc, tick, call,
          steps, limit, twin>>

\* bounds of the exploration: the number of events on the controller, on the
\* robot and in the application, and the number of events by which autoTune
\* is called; the controller with non-finite timesteps has its own bound
MaxSteps == 3
MaxRobotSteps == 5
MaxEvents == 4
TuneBy == 2
MaxNonFiniteSteps == 2
MaxTwinSteps == 4
MaxTuneSteps == 3
MaxWindupSteps == 9
MaxDecaySteps == 5
MaxHistorySteps == 3
LongRun == 1000
MaxReadSteps == 2
MaxConstructSteps == 3

\* inputs
Setpoints == {Zero, Fin(5000)}
Measurements == {Fin(2000), Fin(0 - 30000)}
Gains == {<<Fin(5000), Fin(10), Fin(50)>>, <<Fin(500), Fin(50), Fin(800)>>}
CalculateArgs ==
    {<<Zero, Fin(0 - 30000), Fin(10000)>>,
     <<Zero, Fin(2000), Fin(20)>>,
     <<Zero, Fin(2000), Null>>,
     <<Fin(5000), Fin(2000), Zero>>,
     <<Zero, Fin(0 - 30000), Fin(0 - 20)>>,
     <<Fin(5000), Fin(0 - 30000), Fin(20)>>}
NonFiniteArgs ==
    {<<Zero, Fin(2000), NaN>>,
     <<Zero, Zero, PosInf>>,
     <<Zero, Fin(2000), PosInf>>,
     <<Zero, Fin(0 - 30000), NegInf>>}
AutoTuneArgs == {<<Zero, Zero, 5>>, <<Fin(0 - 30000), Zero, 5>>}
Elapses == {0 - 5, 16, 10000}
Torques == {Fin(0 - 1000000), Fin(0 - 2000), Fin(100000)}
Forces == {Fin(3000), Fin(5000), Fin(6999)}
RandomAngles == {Fin(0 - 100), Zero, Fin(99)}

\* the ghost record of a call
Called(op, setpoint, currentValue, deltaTime, before, ret) ==
    [op |-> op, prev |-> call.op, setpoint |-> setpoint, currentValue |-> currentValue,
     deltaTime |-> deltaTime, before |-> before, ret |-> ret]

NoTick ==
    [ops |-> << >>, deltaTime |-> Undefined, robotState |-> Undefined,
     pidResult |-> Undefined, physDt |-> Undefined, ctlDt |-> Undefined,
     thrown |-> FALSE]

\* no second run
NoTwin == [offset |-> 0]

\* the PIDSimulatorApp fields after its constructor, at time t
PIDSimulatorApp(t) ==
    [isRunning |-> FALSE, animationId |-> 0, lastUpdateTime |-> t,
     startBtnDisabled |-> FALSE, nextFrame |-> 1]

\* the controller of either variant as constructed at time t
NewController(variant, kp, ki, kd, t) ==
    IF variant = "enhanced" THEN PIDController(kp, ki, kd, t)
    ELSE BasicPIDController(kp, ki, kd, t)

(***************************************************************************)
(* The controller driven through its own interface                         *)
(***************************************************************************)
InitController ==
    /\ now = 0
    /\ pidVariant \in {"enhanced", "basic"}
    /\ pid = NewController(pidVariant, Fin(2000), Fin(100), Fin(500), 0)
    /\ robotVariant = "new"
    /\ robot = BalancingRobot(0)
    /\ app = PIDSimulatorApp(0)
    /\ frames = {}
    /\ pc = "idle"
    /\ tick = NoTick
    /\ call = [op |-> "new", prev |-> "none", setpoint |-> Zero, currentValue |-> Zero,
               deltaTime |-> Zero, before |-> Zero, ret |-> Undefined]
    /\ steps = 0
    /\ limit = MaxSteps
    /\ twin = NoTwin

\* the wall clock moves by d milliseconds (backwards when it is adjusted);
\* a handler runs to completion within one reading of the clock
Elapse(d) ==
    /\ pc = "idle"
    /\ steps < limit
    /\ now' = now + d
    /\ steps' = steps + 1
    /\ UNCHANGED <<pidVariant, pid, robotVariant, robot, app, frames, pc, tick, call, limit, twin>>

ControllerCall(variant) ==
    /\ pc = "idle"
    /\ pidVariant = variant
    /\ steps < limit
    /\ steps' = steps + 1
    /\ UNCHANGED <<now, pidVariant, robotVariant, robot, app, frames, pc, tick, limit, twin>>

Calculate(setpoint, currentValue, deltaTime) ==
    /\ ControllerCall("enhanced")
    /\ \E r \in {calculate(pid, setpoint, currentValue, deltaTime, now)} :
           /\ pid' = r.this
           /\ call' = Called("calculate", setpoint, currentValue,
                             elapsedTime(pid, deltaTime, now), pid.lastOutput, r.output)

Update(currentValue) ==
    /\ ControllerCall("enhanced")
    /\ \E r \in {update(pid, currentValue, now)} :
           /\ pid' = r.this
           /\ call' = Called("update", pid.setpoint, currentValue,
                             elapsedTime(pid, Null, now), pid.lastOutput, r.output)

SetParameters(g) ==
    /\ ControllerCall("enhanced")
    /\ pid' = setParameters(pid, g[1], g[2], g[3])
    /\ call' = Called("setParameters", Zero, Zero, Zero, pid.lastOutput, Undefined)

SetGains(g) ==
    /\ ControllerCall("enhanced")
    /\ pid' = setGains(pid, g[1], g[2], g[3])
    /\ call' = Called("setGains", Zero, Zero, Zero, pid.lastOutput, Undefined)

Reset ==
    /\ ControllerCall("enhanced")
    /\ pid' = reset(pid, now)
    /\ call' = Called("reset", Zero, Zero, Zero, pid.lastOutput, Undefined)

\* r is what autoTune(processVariable, setpoint, cycles) comes to
AutoTune(processVariable, setpoint, cycles) ==
    /\ ControllerCall("enhanced")
    /\ steps < TuneBy
    /\ \E r \in {autoTune(pid, processVariable, setpoint, cycles, now)} :
           /\ pid' = r.this
           /\ call' = Called("autoTune", setpoint, processVariable, autoTuneDt,
                             pid.lastOutput, r.result)

BasicUpdate(currentValue) ==
    /\ ControllerCall("basic")
    /\ \E r \in {basicUpdate(pid, currentValue, now)} :
           /\ pid' = r.this
           /\ call' = Called("update", pid.setpoint, currentValue,
                             basicElapsedTime(pid, now), Zero, r.result)

BasicSetGains(g) ==
    /\ ControllerCall("basic")
    /\ pid' = basicSetGains(pid, g[1], g[2], g[3])
    /\ call' = Called("setGains", Zero, Zero, Zero, Zero, Undefined)

BasicSetSetpoint(setpoint) ==
    /\ ControllerCall("basic")
    /\ pid' = basicSetSetpoint(pid, setpoint)
    /\ call' = Called("setSetpoint", setpoint, Zero, Zero, Zero, Undefined)

BasicReset ==
    /\ ControllerCall("basic")
    /\ pid' = basicReset(pid, now)
    /\ call' = Called("reset", Zero, Zero, Zero, Zero, Undefined)

NextController ==
    \/ \E a \in CalculateArgs : Calculate(a[1], a[2], a[3])
    \/ \E v \in Measurements : Update(v)
    \/ \E g \in Gains : SetParameters(g)
    \/ \E g \in Gains : SetGains(g)
    \/ Reset
    \/ \E a \in AutoTuneArgs : AutoTune(a[1], a[2], a[3])
    \/ \E v \in Measurements : BasicUpdate(v)
    \/ \E g \in Gains : BasicSetGains(g)
    \/ \E sp \in Setpoints : BasicSetSetpoint(sp)
    \/ BasicReset
    \/ \E d \in Elapses : Elapse(d)

SpecController == InitController /\ [][NextController]_vars

\* The enhanced controller alone, its calculate also called with a deltaTime
\* that is NaN or infinite.
InitControllerNonFinite ==
    /\ now = 0
    /\ pidVariant = "enhanced"
    /\ pid = NewController(pidVariant, Fin(2000), Fin(100), Fin(500), 0)
    /\ robotVariant = "new"
    /\ robot = BalancingRobot(0)
    /\ app = PIDSimulatorApp(0)
    /\ frames = {}
    /\ pc = "idle"
    /\ tick = NoTick
    /\ call = [op |-> "new", prev |-> "none", setpoint |-> Zero, currentValue |-> Zero,
               deltaTime |-> Zero, before |-> Zero, ret |-> Undefined]
    /\ steps = 0
    /\ limit = MaxNonFiniteSteps
    /\ twin = NoTwin

CalculateNonFinite(setpoint, currentValue, deltaTime) ==
    Calculate(setpoint, currentValue, deltaTime)

NextControllerNonFinite ==
    \/ \E a \in NonFiniteArgs : CalculateNonFinite(a[1], a[2], a[3])
    \/ \E a \in CalculateArgs : Calculate(a[1], a[2], a[3])
    \/ \E v \in Measurements : Update(v)
    \/ \E g \in Gains : SetParameters(g)
    \/ \E g \in Gains : SetGains(g)
    \/ Reset
    \/ \E a \in AutoTuneArgs : AutoTune(a[1], a[2], a[3])
    \/ \E d \in Elapses : Elapse(d)

SpecControllerNonFinite == InitControllerNonFinite /\ [][NextControllerNonFinite]_vars


(***************************************************************************)
(* The robot driven through its own interface                              *)
(***************************************************************************)
InitPhysics ==
    /\ now = 0
    /\ pidVariant = "enhanced"
    /\ pid = PIDController(Fin(2500), Fin(100), Fin(800), 0)
    /\ robotVariant \in {"new", "old"}
    /\ robot = BalancingRobot(0)
    /\ app = PIDSimulatorApp(0)
    /\ frames = {}
    /\ pc = "idle"
    /\ tick = NoTick
    /\ call = [op |-> "new", prev |-> "none", setpoint |-> Zero, currentValue |-> Zero,
               deltaTime |-> Zero, before |-> Zero, ret |-> Undefined]
    /\ steps = 0
    /\ limit = MaxRobotSteps
    /\ twin = NoTwin

RobotCall(variants) ==
    /\ pc = "idle"
    /\ robotVariant \in variants
    /\ steps < limit
    /\ steps' = steps + 1
    /\ UNCHANGED <<now, pidVariant, robotVariant, app, frames, pc, tick, limit, twin>>

RobotUpdate ==
    /\ RobotCall({"new"})
    /\ robot' = robotUpdate(robot, now)
    /\ call' = Called("robot.update", Zero, Zero, robotDeltaTime(robot, now), Zero, Undefined)
    /\ UNCHANGED pid

OldRobotUpdate ==
    /\ RobotCall({"old"})
    /\ robot' = oldRobotUpdate(robot, now)
    /\ call' = Called("robot.update", Zero, Zero, oldRobotDeltaTime(robot, now), Zero, Undefined)
    /\ UNCHANGED pid

\* reset() of the newer variant also resets the controller it was given
RobotReset ==
    /\ RobotCall({"new"})
    /\ robot' = robotReset(robot, now)
    /\ pid' = IF pidVariant = "enhanced" THEN reset(pid, now) ELSE basicReset(pid, now)
    /\ call' = Called("robot.reset", Zero, Zero, Zero, Zero, Undefined)

OldRobotReset(random) ==
    /\ RobotCall({"old"})
    /\ robot' = oldRobotReset(robot, random, now)
    /\ call' = Called("robot.reset", Zero, Zero, Zero, Zero, Undefined)
    /\ UNCHANGED pid

ApplyDisturbance(force) ==
    /\ RobotCall({"new", "old"})
    /\ robot' = applyDisturbance(robot, force)
    /\ call' = Called("robot.applyDisturbance", Zero, force, Zero, Zero, Undefined)
    /\ UNCHANGED pid

SetTorque(torque) ==
    /\ RobotCall({"new", "old"})
    /\ robot' = setTorque(robot, torque)
    /\ call' = Called("robot.setTorque", Zero, torque, Zero, Zero, Undefined)
    /\ UNCHANGED pid

NextPhysics ==
    \/ RobotUpdate
    \/ OldRobotUpdate
    \/ RobotReset
    \/ \E a \in RandomAngles : OldRobotReset(a)
    \/ \E f \in Forces : ApplyDisturbance(f)
    \/ \E t \in Torques : SetTorque(t)
    \/ \E d \in Elapses : Elapse(d)

SpecPhysics == InitPhysics /\ [][NextPhysics]_vars


(***************************************************************************)
(* PIDSimulatorApp: the driver.  The graph, the sliders' display and the   *)
(* rendering are left out; a handler runs to completion, the steps of      *)
(* animate() being separated only to make their order observable.          *)
(***************************************************************************)
\* whether a value is truthy
Truthy(x) == x.k = "object" \/ x.k = "inf" \/ (x.k = "fin" /\ x.v # 0)

\* x.output and x.error: undefined when x is a number
outputOf(x) == IF x.k = "object" THEN x.output ELSE Undefined
errorOf(x) == IF x.k = "object" THEN x.error ELSE Undefined

\* updateDisplay(robotState, pidResult) throws a TypeError when it calls
\* toFixed on an undefined pidResult.error
updateDisplayThrows(pidResult) == Truthy(pidResult) /\ errorOf(pidResult) = Undefined

\* the entry of animate() at time t for the application fields a: where it
\* continues, with which fields and locals
animateEnter(a, t) ==
    IF ~a.isRunning
    THEN [app |-> a, pc |-> "idle", tick |-> tick]
    ELSE [app |-> [a EXCEPT !.lastUpdateTime = t],
          pc |-> "physics",
          tick |-> [NoTick EXCEPT
                      !.deltaTime = MathMin(Millis(t - a.lastUpdateTime), Fin(20))]]

\* a start that does not look at isRunning
startSimulationUnguarded(a, t) ==
    animateEnter([a EXCEPT !.isRunning = TRUE,
                           !.lastUpdateTime = t,
                           !.startBtnDisabled = TRUE], t)

startSimulation(a, t) ==
    IF ~a.isRunning
    THEN animateEnter([a EXCEPT !.isRunning = TRUE,
                                !.lastUpdateTime = t,
                                !.startBtnDisabled = TRUE], t)
    ELSE [app |-> a, pc |-> "idle", tick |-> tick]

\* a pause that cancels the frame and leaves isRunning as it is
pauseSimulationLeavingRunning(a, pending) ==
    [app |-> [a EXCEPT !.animationId = 0,
                       !.startBtnDisabled = FALSE],
     frames |-> IF a.animationId # 0 THEN pending \ {a.animationId} ELSE pending]

pauseSimulation(a, pending) ==
    [app |-> [a EXCEPT !.isRunning = FALSE,
                       !.animationId = 0,
                       !.startBtnDisabled = FALSE],
     frames |-> IF a.animationId # 0 THEN pending \ {a.animationId} ELSE pending]

\* reset() of the controller of the loaded variant
controllerReset(this, t) ==
    IF pidVariant = "enhanced" THEN reset(this, t) ELSE basicReset(this, t)

InitApp ==
    /\ now = 0
    /\ pidVariant \in {"enhanced", "basic"}
    /\ pid = NewController(pidVariant, Fin(2000), Fin(100), Fin(500), 0)
    /\ robotVariant \in {"new", "old"}
    /\ robot = BalancingRobot(0)
    /\ app = PIDSimulatorApp(0)
    /\ frames = {}
    /\ pc = "idle"
    /\ tick = NoTick
    /\ call = [op |-> "new", prev |-> "none", setpoint |-> Zero, currentValue |-> Zero,
               deltaTime |-> Zero, before |-> Zero, ret |-> Undefined]
    /\ steps = 0
    /\ limit = MaxEvents
    /\ twin = NoTwin

AppEvent ==
    /\ pc = "idle"
    /\ steps < limit
    /\ steps' = steps + 1
    /\ UNCHANGED <<now, pidVariant, robotVariant, call, limit, twin>>

DoStart ==
    /\ LET r == startSimulation(app, now)
       IN  app' = r.app /\ pc' = r.pc /\ tick' = r.tick
    /\ UNCHANGED <<pid, robot, frames>>

DoPause ==
    /\ LET r == pauseSimulation(app, frames)
       IN  app' = r.app /\ frames' = r.frames
    /\ UNCHANGED <<pid, robot, pc, tick>>

\* resetSimulation: pauseSimulation(); robot.reset(); pidController.reset()
DoReset(random) ==
    /\ LET r == pauseSimulation(app, frames)
       IN  app' = r.app /\ frames' = r.frames
    /\ robot' = IF robotVariant = "new" THEN robotReset(robot, now)
                ELSE oldRobotReset(robot, random, now)
    /\ pid' = IF robotVariant = "new"
              THEN controllerReset(controllerReset(pid, now), now)
              ELSE controllerReset(pid, now)
    /\ UNCHANGED <<pc, tick>>

\* addDisturbance: force is the value of 3 + Math.random() * 4
DoDisturbance(force) ==
    /\ robot' = applyDisturbance(robot, force)
    /\ UNCHANGED <<pid, app, frames, pc, tick>>

StartSimulation == AppEvent /\ DoStart

PauseSimulation == AppEvent /\ DoPause

ResetSimulation ==
    /\ AppEvent
    /\ \E random \in (IF robotVariant = "new" THEN {Zero} ELSE RandomAngles) : DoReset(random)

AddDisturbance(force) == AppEvent /\ DoDisturbance(force)

UpdatePIDParameters(g) ==
    /\ AppEvent
    /\ pid' = IF pidVariant = "enhanced" THEN setGains(pid, g[1], g[2], g[3])
              ELSE basicSetGains(pid, g[1], g[2], g[3])
    /\ UNCHANGED <<robot, app, frames, pc, tick>>

\* handleKeyboard: Space, R and D (C only clears the graph)
HandleKeyboard(key) ==
    /\ AppEvent
    /\ CASE key = " " -> IF app.isRunning THEN DoPause ELSE DoStart
         [] key = "r" ->
              \E random \in (IF robotVariant = "new" THEN {Zero} ELSE RandomAngles) :
                  DoReset(random)
         [] key = "d" -> \E force \in Forces : DoDisturbance(force)

\* a pending animation frame fires: () => this.animate()
FrameCallback(id) ==
    /\ AppEvent
    /\ id \in frames
    /\ frames' = frames \ {id}
    /\ LET r == animateEnter(app, now)
       IN  app' = r.app /\ pc' = r.pc /\ tick' = r.tick
    /\ UNCHANGED <<pid, robot>>

AnimateStep(at) ==
    /\ pc = at
    /\ UNCHANGED <<now, pidVariant, robotVariant, call, steps, limit, twin>>

\* this.robot.update()
AnimatePhysics ==
    /\ AnimateStep("physics")
    /\ robot' = IF robotVariant = "new" THEN robotUpdate(robot, now)
                ELSE oldRobotUpdate(robot, now)
    /\ tick' = [tick EXCEPT !.ops = Append(@, "step"),
                            !.physDt = IF robotVariant = "new"
                                       THEN robotDeltaTime(robot, now)
                                       ELSE oldRobotDeltaTime(robot, now)]
    /\ pc' = "measure"
    /\ UNCHANGED <<pid, app, frames>>

\* const robotState = this.robot.getState()
AnimateMeasure ==
    /\ AnimateStep("measure")
    /\ tick' = [tick EXCEPT !.ops = Append(@, "measure"), !.robotState = getState(robot)]
    /\ pc' = "control"
    /\ UNCHANGED <<pid, robot, app, frames>>

\* r is what this.pidController.update(robotState.angleDegrees) comes to and
\* dt the timestep it worked with
AnimateControlled(r, ret, dt) ==
    /\ pid' = r.this
    /\ tick' = [tick EXCEPT !.ops = Append(@, "calculate"),
                            !.pidResult = ret,
                            !.ctlDt = dt]

\* const pidResult = this.pidController.update(robotState.angleDegrees)
AnimateControl ==
    /\ AnimateStep("control")
    /\ IF pidVariant = "enhanced"
       THEN \E r \in {update(pid, tick.robotState.angleDegrees, now)} :
               AnimateControlled(r, r.output, safeDeltaTime(elapsedTime(pid, Null, now)))
       ELSE \E r \in {basicUpdate(pid, tick.robotState.angleDegrees, now)} :
               AnimateControlled(r, r.result, basicElapsedTime(pid, now))
    /\ pc' = "apply"
    /\ UNCHANGED <<robot, app, frames>>

\* this.robot.setTorque(pidResult.output)
AnimateApply ==
    /\ AnimateStep("apply")
    /\ robot' = setTorque(robot, outputOf(tick.pidResult))
    /\ tick' = [tick EXCEPT !.ops = Append(@, "setTorque")]
    /\ pc' = "display"
    /\ UNCHANGED <<pid, app, frames>>

\* this.updateDisplay(robotState, pidResult); ...;
\* this.animationId = requestAnimationFrame(() => this.animate())
AnimateFinish ==
    /\ AnimateStep("display")
    /\ pc' = "idle"
    /\ IF updateDisplayThrows(tick.pidResult)
       THEN /\ tick' = [tick EXCEPT !.thrown = TRUE]
            /\ UNCHANGED <<app, frames>>
       ELSE /\ frames' = frames \cup {app.nextFrame}
            /\ app' = [app EXCEPT !.animationId = app.nextFrame, !.nextFrame = @ + 1]
            /\ UNCHANGED tick
    /\ UNCHANGED <<pid, robot>>

Init == InitApp

Next ==
    \/ StartSimulation
    \/ PauseSimulation
    \/ ResetSimulation
    \/ \E f \in Forces : AddDisturbance(f)
    \/ \E g \in Gains : UpdatePIDParameters(g)
    \/ \E key \in {" ", "r", "d"} : HandleKeyboard(key)
    \/ \E id \in frames : FrameCallback(id)
    \/ AnimatePhysics
    \/ AnimateMeasure
    \/ AnimateControl
    \/ AnimateApply
    \/ AnimateFinish
    \/ \E d \in Elapses : Elapse(d)

Spec == Init /\ [][Next]_vars


(***************************************************************************)
(* autoTune on a controller in use                                         *)
(*                                                                         *)
(* With a constant measurement the output of the loop in autoTune changes  *)
(* sign four times only when kp and ki have opposite signs and the         *)
(* controller comes out of a call with a large derivative; the gains and   *)
(* the calls below include such a case next to the ones that fail.         *)
(***************************************************************************)
TuneGains ==
    {<<Fin(2000), Fin(100), Fin(500)>>,
     <<Fin(0 - 6560), Fin(5556), Fin(0 - 2737)>>}
TuneCalculateArgs ==
    {<<Zero, Fin(0 - 149893), Fin(127)>>,
     <<Zero, Fin(0 - 30000), Fin(10000)>>}
TuneArgs ==
    {<<Fin(0 - 42623), Zero, 5>>,
     <<Fin(0 - 42623), Zero, 1>>,
     <<Fin(2000), Fin(2000), 5>>}

InitAutoTune ==
    /\ now = 0
    /\ pidVariant = "enhanced"
    /\ \E g \in TuneGains : pid = PIDController(g[1], g[2], g[3], 0)
    /\ robotVariant = "new"
    /\ robot = BalancingRobot(0)
    /\ app = PIDSimulatorApp(0)
    /\ frames = {}
    /\ pc = "idle"
    /\ tick = NoTick
    /\ call = [op |-> "new", prev |-> "none", setpoint |-> Zero, currentValue |-> Zero,
               deltaTime |-> Zero, before |-> Zero, ret |-> Undefined]
    /\ steps = 0
    /\ limit = MaxTuneSteps
    /\ twin = NoTwin

NextAutoTune ==
    \/ \E a \in TuneCalculateArgs : Calculate(a[1], a[2], a[3])
    \/ \E a \in TuneArgs : AutoTune(a[1], a[2], a[3])
    \/ \E g \in TuneGains : SetGains(g)
    \/ Reset
    \/ \E d \in {16} : Elapse(d)

SpecAutoTune == InitAutoTune /\ [][NextAutoTune]_vars

(***************************************************************************)
(* A sustained error: the same call made again and again                   *)
(*                                                                         *)
(* The controller is fresh or comes out of an earlier call; then one       *)
(* setpoint, one measurement and one timestep are fixed and the call is    *)
(* repeated.  The enhanced controller is given the timestep as an          *)
(* argument, the basic one reads the clock, which moves by the timestep    *)
(* between the calls.                                                      *)
(***************************************************************************)
\* setpoint, measurement and timestep in milliseconds: a positive error
WindupArgs ==
    {<<Zero, Fin(0 - 30000), 1000>>,
     <<Fin(5000), Fin(2000), 10000>>,
     <<Zero, Fin(0 - 30000), 2000>>}

\* measurement and timestep in milliseconds of a call made before, at
\* setpoint 0
WindupEarlier == {<<Fin(30000), 10000>>, <<Fin(0 - 20000), 1000>>}

\* the controllers the sustained error may meet at clock reading t
WindupControllers(variant, t) ==
    {NewController(variant, Fin(2000), Fin(100), Fin(500), t)} \cup
    {IF variant = "enhanced"
     THEN calculate(PIDController(Fin(2000), Fin(100), Fin(500), 0), Zero, a[1], Fin(a[2]), t).this
     ELSE basicUpdate(BasicPIDController(Fin(2000), Fin(100), Fin(500), t - a[2]), a[1], t).this :
        a \in WindupEarlier}

InitWindup ==
    /\ now = 10000
    /\ pidVariant \in {"enhanced", "basic"}
    /\ pid \in WindupControllers(pidVariant, now)
    /\ robotVariant = "new"
    /\ robot = BalancingRobot(0)
    /\ app = PIDSimulatorApp(0)
    /\ frames = {}
    /\ pc = "idle"
    /\ tick = NoTick
    /\ call = [op |-> "new", prev |-> "none", setpoint |-> Zero, currentValue |-> Zero,
               deltaTime |-> Zero, before |-> Zero, ret |-> Undefined]
    /\ steps = 0
    /\ limit = MaxWindupSteps
    /\ twin = NoTwin

\* one call with the given setpoint, measurement and timestep
WindupCalculate(setpoint, currentValue, ms) ==
    /\ steps < limit
    /\ steps' = steps + 1
    /\ pc' = "windup"
    /\ IF pidVariant = "enhanced"
       THEN /\ \E r \in {calculate(pid, setpoint, currentValue, Fin(ms), now)} :
                  /\ pid' = r.this
                  /\ call' = Called("calculate", setpoint, currentValue, Fin(ms),
                                    pid.integral, r.output)
            /\ now' = now
       ELSE /\ \E r \in {basicUpdate(basicSetSetpoint(pid, setpoint), currentValue, now + ms)} :
                  /\ pid' = r.this
                  /\ call' = Called("update", setpoint, currentValue, Fin(ms),
                                    pid.integral, r.result)
            /\ now' = now + ms
    /\ UNCHANGED <<pidVariant, robotVariant, robot, app, frames, tick, limit, twin>>

\* the first call of the sustained error
WindupStart(setpoint, currentValue, ms) ==
    /\ pc = "idle"
    /\ WindupCalculate(setpoint, currentValue, ms)

\* the same call again
WindupAgain ==
    /\ pc = "windup"
    /\ WindupCalculate(call.setpoint, call.currentValue, call.deltaTime.v)

NextWindup ==
    \/ \E a \in WindupArgs : WindupStart(a[1], a[2], a[3])
    \/ WindupAgain

\* the calls keep being made for as long as the error persists
SpecWindup == InitWindup /\ [][NextWindup]_vars /\ WF_vars(NextWindup)

(***************************************************************************)
(* Two runs of the control loop side by side                               *)
(*                                                                         *)
(* The first run lives in pid and robot and reads the clock as now; the    *)
(* second lives in twin and reads it as now + twin.offset (the two pages   *)
(* were loaded at different times).  Both are given the same elapsed       *)
(* times, gain changes, disturbances and resets; only the values that      *)
(* Math.random() hands to reset() are drawn separately in each run.        *)
(***************************************************************************)
\* this.robot.update() of the loaded robot
animateRobot(r, t) ==
    IF robotVariant = "new" THEN robotUpdate(r, t) ELSE oldRobotUpdate(r, t)

\* this.pidController.update(robotState.angleDegrees) of the loaded controller
animateControl(p, angleDegrees, t) ==
    IF pidVariant = "enhanced"
    THEN CHOOSE x \in {[this |-> c.this, ret |-> c.output] :
                          c \in {update(p, angleDegrees, t)}} : TRUE
    ELSE CHOOSE x \in {[this |-> c.this, ret |-> c.result] :
                          c \in {basicUpdate(p, angleDegrees, t)}} : TRUE

\* animate() from getState() to setTorque(pidResult.output)
animateAfterPhysics(p, r, t) ==
    CHOOSE x \in {[pid |-> c.this, robot |-> setTorque(r, outputOf(c.ret))] :
                     c \in {animateControl(p, getState(r).angleDegrees, t)}} : TRUE

\* the state changes of one pass of animate() at clock reading t
animate(p, r, t) ==
    CHOOSE x \in {animateAfterPhysics(p, r1, t) : r1 \in {animateRobot(r, t)}} : TRUE

\* resetSimulation() on a controller and a robot: robot.reset(), which in the
\* newer variant resets the controller too, then pidController.reset()
resetSimulation(p, r, random, t) ==
    [robot |-> IF robotVariant = "new" THEN robotReset(r, t)
               ELSE oldRobotReset(r, random, t),
     pid |-> IF robotVariant = "new"
             THEN controllerReset(controllerReset(p, t), t)
             ELSE controllerReset(p, t)]

\* updatePIDParameters() on a controller
updatePIDParameters(p, g) ==
    IF pidVariant = "enhanced" THEN setGains(p, g[1], g[2], g[3])
    ELSE basicSetGains(p, g[1], g[2], g[3])

TwinOffsets == {1000}

InitTwin ==
    /\ now = 0
    /\ pidVariant \in {"enhanced", "basic"}
    /\ pid = NewController(pidVariant, Fin(2000), Fin(100), Fin(500), 0)
    /\ robotVariant \in {"new", "old"}
    /\ robot = BalancingRobot(0)
    /\ app = PIDSimulatorApp(0)
    /\ frames = {}
    /\ pc = "idle"
    /\ tick = NoTick
    /\ call = [op |-> "new", prev |-> "none", setpoint |-> Zero, currentValue |-> Zero,
               deltaTime |-> Zero, before |-> Zero, ret |-> Undefined]
    /\ steps = 0
    /\ limit = MaxTwinSteps
    /\ \E offset \in TwinOffsets :
          twin = [offset |-> offset,
                  pid |-> NewController(pidVariant, Fin(2000), Fin(100), Fin(500), offset),
                  robot |-> BalancingRobot(offset),
                  sameDraws |-> TRUE,
                  ticks |-> 0,
                  resets |-> 0]

TwinCall ==
    /\ pc = "idle"
    /\ steps < limit
    /\ steps' = steps + 1
    /\ UNCHANGED <<now, pidVariant, robotVariant, app, frames, pc, tick, call, limit>>

\* both runs go through one pass of animate()
TwinTick ==
    /\ TwinCall
    /\ \E a \in {animate(pid, robot, now)},
          b \in {animate(twin.pid, twin.robot, now + twin.offset)} :
          /\ pid' = a.pid
          /\ robot' = a.robot
          /\ twin' = [twin EXCEPT !.pid = b.pid, !.robot = b.robot, !.ticks = @ + 1]

\* both runs are given the gains g
TwinSetGains(g) ==
    /\ TwinCall
    /\ pid' = updatePIDParameters(pid, g)
    /\ twin' = [twin EXCEPT !.pid = updatePIDParameters(@, g)]
    /\ UNCHANGED robot

\* both runs are given the disturbance force
TwinDisturb(force) ==
    /\ TwinCall
    /\ robot' = applyDisturbance(robot, force)
    /\ twin' = [twin EXCEPT !.robot = applyDisturbance(@, force)]
    /\ UNCHANGED pid

\* both runs are reset; random1 and random2 are what Math.random() * 0.2 - 0.1
\* comes to in each of them
TwinReset(random1, random2) ==
    /\ TwinCall
    /\ \E a \in {resetSimulation(pid, robot, random1, now)},
          b \in {resetSimulation(twin.pid, twin.robot, random2, now + twin.offset)} :
          /\ pid' = a.pid
          /\ robot' = a.robot
          /\ twin' = [twin EXCEPT !.pid = b.pid, !.robot = b.robot,
                                  !.resets = @ + 1,
                                  !.sameDraws = @ /\ (robotVariant = "new" \/ random1 = random2)]

NextTwin ==
    \/ TwinTick
    \/ \E g \in Gains : TwinSetGains(g)
    \/ \E force \in Forces : TwinDisturb(force)
    \/ \E random1 \in RandomAngles, random2 \in RandomAngles : TwinReset(random1, random2)
    \/ \E d \in Elapses : Elapse(d)

SpecTwin == InitTwin /\ [][NextTwin]_vars

(***************************************************************************)
(* A disturbance and the ticks after it                                    *)
(*                                                                         *)
(* tick keeps, for the properties, the magnitude that was injected last    *)
(* and the milliseconds the clock moved before each update() since then.   *)
(***************************************************************************)
InitDecay ==
    /\ now = 0
    /\ pidVariant = "enhanced"
    /\ pid = PIDController(Fin(2500), Fin(100), Fin(800), 0)
    /\ robotVariant \in {"new", "old"}
    /\ robot = BalancingRobot(0)
    /\ app = PIDSimulatorApp(0)
    /\ frames = {}
    /\ pc = "idle"
    /\ tick = [force |-> Zero, ops |-> << >>]
    /\ call = [op |-> "new", prev |-> "none", setpoint |-> Zero, currentValue |-> Zero,
               deltaTime |-> Zero, before |-> Zero, ret |-> Undefined]
    /\ steps = 0
    /\ limit = MaxDecaySteps
    /\ twin = NoTwin

DecayCall ==
    /\ pc = "idle"
    /\ steps < limit
    /\ steps' = steps + 1
    /\ UNCHANGED <<pidVariant, pid, robotVariant, app, frames, pc, limit, twin>>

\* applyDisturbance(force)
DecayInject(force) ==
    /\ DecayCall
    /\ robot' = applyDisturbance(robot, force)
    /\ tick' = [force |-> force, ops |-> << >>]
    /\ call' = Called("robot.applyDisturbance", Zero, force, Zero, Zero, Undefined)
    /\ UNCHANGED now

\* the clock moves by d milliseconds and update() is called
DecayTick(d) ==
    /\ DecayCall
    /\ now' = now + d
    /\ robot' = animateRobot(robot, now + d)
    /\ tick' = [tick EXCEPT !.ops = Append(@, d)]
    /\ call' = Called("robot.update", Zero, Zero, Millis(d), Zero, Undefined)

\* setTorque(torque) between two ticks
DecaySetTorque(torque) ==
    /\ DecayCall
    /\ robot' = setTorque(robot, torque)
    /\ call' = Called("robot.setTorque", Zero, torque, Zero, Zero, Undefined)
    /\ UNCHANGED <<now, tick>>

NextDecay ==
    \/ \E force \in Forces : DecayInject(force)
    \/ \E d \in {0 - 5, 0, 16} : DecayTick(d)
    \/ \E torque \in Torques : DecaySetTorque(torque)

SpecDecay == InitDecay /\ [][NextDecay]_vars

(***************************************************************************)
(* The controller over a long run: it is fresh, or has been updated every  *)
(* 16 ms for LongRun frames, and is then called, tuned and reset           *)
(***************************************************************************)
\* the controller after the updates number lo+1 .. hi of a run that began at
\* time t, one update every 16 ms, the measurement of update k being v + k
\* thousandths of a degree
RECURSIVE runOfUpdates(_, _, _, _, _, _)
runOfUpdates(variant, p, v, t, lo, hi) ==
    IF lo >= hi THEN p
    ELSE IF hi - lo = 1
         THEN IF variant = "enhanced" THEN update(p, Fin(v + hi), t + 16 * hi).this
              ELSE basicUpdate(p, Fin(v + hi), t + 16 * hi).this
    ELSE CHOOSE last \in
             {runOfUpdates(variant, half, v, t, (lo + hi) \div 2, hi) :
                 half \in {runOfUpdates(variant, p, v, t, lo, (lo + hi) \div 2)}} : TRUE

HistoryCalculateArgs ==
    {<<Zero, Fin(0 - 30000), Fin(10000)>>, <<Fin(5000), Fin(2000), Fin(20)>>}
HistoryTuneArgs == {<<Fin(0 - 30000), Zero, 5>>}

InitHistory ==
    /\ pidVariant \in {"enhanced", "basic"}
    /\ \E n \in {0, LongRun} :
          /\ now = 16 * n
          /\ pid = runOfUpdates(pidVariant,
                                NewController(pidVariant, Fin(2000), Fin(100), Fin(500), 0),
                                2000, 0, 0, n)
    /\ robotVariant = "new"
    /\ robot = BalancingRobot(0)
    /\ app = PIDSimulatorApp(0)
    /\ frames = {}
    /\ pc = "idle"
    /\ tick = NoTick
    /\ call = [op |-> "new", prev |-> "none", setpoint |-> Zero, currentValue |-> Zero,
               deltaTime |-> Zero, before |-> Zero, ret |-> Undefined]
    /\ steps = 0
    /\ limit = MaxHistorySteps
    /\ twin = NoTwin

NextHistory ==
    \/ \E a \in HistoryCalculateArgs : Calculate(a[1], a[2], a[3])
    \/ \E v \in Measurements : Update(v)
    \/ Reset
    \/ \E a \in HistoryTuneArgs : AutoTune(a[1], a[2], a[3])
    \/ \E v \in Measurements : BasicUpdate(v)
    \/ BasicReset
    \/ \E d \in {16} : Elapse(d)

SpecHistory == InitHistory /\ [][NextHistory]_vars

(***************************************************************************)
(* The read surface: a controller with a history of 0, 9, 10 or 50 samples *)
(* of errors around a base value is read, and updated between the reads    *)
(***************************************************************************)
\* the base measurements of the runs, in thousandths of a degree
ReadBases == {50, 90, 600, 0 - 2000, 5000}
ReadRuns == {0, 9, 10, 50}
Windows == {0, 1, 2, 20}

\* a string as a returned value
String(s) == [k |-> "string", s |-> s]

InitRead ==
    /\ pidVariant \in {"enhanced", "basic"}
    /\ \E v \in ReadBases, n \in ReadRuns :
          /\ now = 16 * n
          /\ pid = runOfUpdates(pidVariant,
                                NewController(pidVariant, Fin(2000), Fin(100), Fin(500), 0),
                                v, 0, 0, n)
    /\ robotVariant = "new"
    /\ robot = BalancingRobot(0)
    /\ app = PIDSimulatorApp(0)
    /\ frames = {}
    /\ pc = "idle"
    /\ tick = NoTick
    /\ call = [op |-> "new", prev |-> "none", setpoint |-> Zero, currentValue |-> Zero,
               deltaTime |-> Zero, before |-> Zero, ret |-> Undefined]
    /\ steps = 0
    /\ limit = MaxReadSteps
    /\ twin = NoTwin

\* a read of the controller; the argument of the call is recorded as
\* currentValue
GetStabilityStatus ==
    /\ ControllerCall("enhanced")
    /\ \E r \in {getStabilityStatus(pid)} :
           /\ pid' = r.this
           /\ call' = Called("getStabilityStatus", pid.setpoint, Undefined, Zero,
                             pid.lastOutput, String(r.result))

GetRMSError(windowSize) ==
    /\ ControllerCall("enhanced")
    /\ \E r \in {getRMSError(pid, windowSize)} :
           /\ pid' = r.this
           /\ call' = Called("getRMSError", pid.setpoint, Fin(windowSize * SCALE), Zero,
                             pid.lastOutput, r.result)

GetPerformanceMetrics ==
    /\ ControllerCall("enhanced")
    /\ \E r \in {getPerformanceMetrics(pid)} :
           /\ pid' = r.this
           /\ call' = Called("getPerformanceMetrics", pid.setpoint, Undefined, Zero,
                             pid.lastOutput, r.result)

GetErrorTrend(windowSize) ==
    /\ ControllerCall("enhanced")
    /\ \E r \in {getErrorTrend(pid, windowSize)} :
           /\ pid' = r.this
           /\ call' = Called("getErrorTrend", pid.setpoint, Fin(windowSize * SCALE), Zero,
                             pid.lastOutput, r.result)

BasicGetStabilityStatus(error) ==
    /\ ControllerCall("basic")
    /\ \E r \in {basicGetStabilityStatus(pid, error)} :
           /\ pid' = r.this
           /\ call' = Called("getStabilityStatus", pid.setpoint, error, Zero, Zero,
                             String(r.result))

BasicGetErrorTrend(samples) ==
    /\ ControllerCall("basic")
    /\ \E r \in {basicGetErrorTrend(pid, samples)} :
           /\ pid' = r.this
           /\ call' = Called("getErrorTrend", pid.setpoint, Fin(samples * SCALE), Zero, Zero,
                             r.result)

GetSettlingTime ==
    /\ ControllerCall("basic")
    /\ \E r \in {getSettlingTime(pid)} :
           /\ pid' = r.this
           /\ call' = Called("getSettlingTime", pid.setpoint, Undefined, Zero, Zero, r.result)

GetOvershoot ==
    /\ ControllerCall("basic")
    /\ \E r \in {getOvershoot(pid)} :
           /\ pid' = r.this
           /\ call' = Called("getOvershoot", pid.setpoint, Undefined, Zero, Zero, r.result)

BasicGetPerformanceMetrics ==
    /\ ControllerCall("basic")
    /\ \E r \in {basicGetPerformanceMetrics(pid)} :
           /\ pid' = r.this
           /\ call' = Called("getPerformanceMetrics", pid.setpoint, Undefined, Zero, Zero,
                             r.result)

\* a read of the robot: getState() copies the fields into a new object
GetState ==
    /\ RobotCall({"new", "old"})
    /\ robot' = robot
    /\ call' = Called("getState", Zero, Undefined, Zero, Zero,
                      [k |-> "object", state |-> getState(robot)])
    /\ UNCHANGED pid

NextRead ==
    \/ GetStabilityStatus
    \/ \E w \in {1, 50} : GetRMSError(w)
    \/ GetPerformanceMetrics
    \/ \E w \in Windows : GetErrorTrend(w)
    \/ \E e \in {Zero, Fin(600)} : BasicGetStabilityStatus(e)
    \/ \E w \in Windows : BasicGetErrorTrend(w)
    \/ GetSettlingTime
    \/ GetOvershoot
    \/ BasicGetPerformanceMetrics
    \/ GetState
    \/ \E v \in Measurements : Update(v)
    \/ \E v \in Measurements : BasicUpdate(v)
    \/ \E f \in {Fin(5000)} : ApplyDisturbance(f)
    \/ RobotUpdate
    \/ \E d \in {16} : Elapse(d)

SpecRead == InitRead /\ [][NextRead]_vars

(***************************************************************************)
(* The robot constructed, with and without its dependencies, and stepped   *)
(***************************************************************************)
InitConstruct ==
    /\ now = 0
    /\ pidVariant = "enhanced"
    /\ pid = PIDController(Fin(2000), Fin(100), Fin(500), 0)
    /\ robotVariant \in {"new", "old"}
    /\ robot = BalancingRobot(0)
    /\ app = PIDSimulatorApp(0)
    /\ frames = {}
    /\ pc = "idle"
    /\ tick = NoTick
    /\ call = [op |-> "new", prev |-> "none", setpoint |-> Zero, currentValue |-> Zero,
               deltaTime |-> Zero, before |-> Zero, ret |-> Undefined]
    /\ steps = 0
    /\ limit = MaxConstructSteps
    /\ twin = NoTwin

\* made is what the construction came to: the new robot (and the controller
\* it holds) takes the place of the old one unless an error was thrown
Constructed(op, canvas, pidController, made) ==
    /\ robot' = IF made.k = "object" THEN made.robot ELSE robot
    /\ pid' = IF made.k = "object" /\ robotVariant = "new" THEN made.pidController ELSE pid
    /\ call' = Called(op, Zero, Zero, Zero, Zero,
                      [k |-> made.k, canvas |-> canvas, pidController |-> pidController])

\* new BalancingRobot(canvas, pidController)
Construct(canvas, pidController) ==
    /\ RobotCall({"new"})
    /\ \E made \in {newBalancingRobot(canvas, pidController, pid, now)} :
           Constructed("new BalancingRobot", canvas, pidController, made)

\* new BalancingRobot(canvas) of the older variant
OldConstruct(canvas) ==
    /\ RobotCall({"old"})
    /\ \E made \in {oldNewBalancingRobot(canvas, now)} :
           Constructed("new BalancingRobot", canvas, "controller", made)

\* BalancingRobot.createDefault(canvas)
CreateDefault(canvas) ==
    /\ RobotCall({"new"})
    /\ \E made \in {createDefault(canvas, now)} :
           Constructed("createDefault", canvas, "controller", made)

NextConstruct ==
    \/ \E canvas \in Canvases, pidController \in Controllers : Construct(canvas, pidController)
    \/ \E canvas \in Canvases : OldConstruct(canvas)
    \/ \E canvas \in Canvases : CreateDefault(canvas)
    \/ RobotUpdate
    \/ OldRobotUpdate
    \/ \E f \in {Fin(5000)} : ApplyDisturbance(f)
    \/ \E d \in {16} : Elapse(d)

SpecConstruct == InitConstruct /\ [][NextConstruct]_vars

(***************************************************************************)
(* Properties                                                              *)
(***************************************************************************)
\* the output limits and the integral band of the loaded controller
OutputInRange(x) ==
    IF pidVariant = "enhanced" THEN Le(outputMin, x) /\ Le(x, outputMax)
    ELSE Le(basicOutputMin, x) /\ Le(x, basicOutputMax)

IntegralInBand(x) ==
    IF pidVariant = "enhanced" THEN Le(integralMin, x) /\ Le(x, integralMax)
    ELSE Le(basicIntegralMin, x) /\ Le(x, basicIntegralMax)

\* the output a controller call returned: the number, or the output field of
\* the result object
ReturnedOutput(ret) == IF ret.k = "object" THEN ret.output ELSE ret

\* the step is a call of calculate/update on the controller
IsControllerEvaluation ==
    /\ steps' = steps + 1
    /\ now' = now
    /\ call'.op \in {"calculate", "update"}

\* the step is a call of update() on the robot
IsRobotUpdate ==
    /\ steps' = steps + 1
    /\ now' = now
    /\ call'.op = "robot.update"

PhysicalState(r) ==
    <<r.angle, r.angularVelocity, r.angularAcceleration, r.position, r.velocity,
      r.torque, r.disturbanceForce>>

\* C1: after any sequence of calculate/update, setGains, reset and autoTune
\* calls with finite setpoints, measurements and gains (the deltaTime is not
\* restricted), every output returned by calculate/update
\* (the last one and every one recorded in outputHistory, those of autoTune's
\* own calls included) and the stored lastOutput lie in [outputMin, outputMax]
C1_OutputWithinLimits ==
    /\ call.op \in {"calculate", "update"} => OutputInRange(ReturnedOutput(call.ret))
    /\ pidVariant = "enhanced" =>
          /\ OutputInRange(pid.lastOutput)
          /\ \A i \in 1..Len(pid.outputHistory) : OutputInRange(pid.outputHistory[i].output)
    /\ pidVariant = "basic" =>
          \A i \in 1..Len(pid.outputHistory) : OutputInRange(pid.outputHistory[i])

\* C2: a calculate call with dt > 0 returns an output that differs from the
\* lastOutput held just before the call by at most maxRate * dt, whatever
\* calls came before it (dt = +Infinity and earlier calls with a non-finite dt
\* included)
C2_SlewRateLimited ==
    (pidVariant = "enhanced" /\ call.op \in {"calculate", "update"}
        /\ Gt(call.deltaTime, Zero))
    => Le(MathAbs(Sub(call.ret, call.before)), Mul(maxRate, call.deltaTime))

\* C3: the integral accumulator is within [integralMin, integralMax] in every
\* controller state reachable by calculate/update, setGains, reset and
\* autoTune calls, whatever deltaTime the calls are given
C3_IntegralWithinBand == IntegralInBand(pid.integral)

\* C4: the angle is within [-pi/2, pi/2] after every physics step, reset,
\* applyDisturbance and setTorque, for finite torques and disturbances
C4_AngleClamped == Le(Neg(halfPI), robot.angle) /\ Le(robot.angle, halfPI)

\* C4 witness: a physics step that ran into the lower clamp
C4_Witness ==
    /\ call.op = "robot.update"
    /\ robot.angle = Neg(halfPI)
    /\ Lt(robot.angularVelocity, Zero)

\* C5: a physics step whose timestep is non-positive or non-finite leaves
\* angle, angularVelocity, angularAcceleration, position, velocity, torque and
\* disturbanceForce unchanged
C5_DegenerateStepIsNoOp ==
    [][(IsRobotUpdate /\ ~(IsFinite(call'.deltaTime) /\ Gt(call'.deltaTime, Zero)))
        => PhysicalState(robot') = PhysicalState(robot)]_vars

\* C5 witness: a step with a non-positive timestep taken while the robot is
\* moving under a disturbance
C5_Witness ==
    /\ call.op = "robot.update"
    /\ Le(call.deltaTime, Zero)
    /\ robot.disturbanceForce # Zero
    /\ robot.angularVelocity # Zero
    /\ robot.angle # Zero

\* C6: a calculate/update evaluated with dt <= 0 leaves the controller in the
\* state, and returns the result, of the same call with dt = 0.001
C6_EpsilonSubstituted ==
    [][(IsControllerEvaluation /\ Le(call'.deltaTime, Zero))
        => IF pidVariant = "enhanced"
           THEN LET r == calculate(pid, call'.setpoint, call'.currentValue, Fin(1), now)
                IN  pid' = r.this /\ call'.ret = r.output
           ELSE LET r == basicStep(pid, call'.currentValue, Fin(1), now)
                IN  pid' = r.this /\ call'.ret = r.result]_vars

\* C7: after a calculate call with a non-finite dt, integral,
\* filteredDerivative, lastOutput and the returned output are finite
C7_NonFiniteDtAbsorbed ==
    (pidVariant = "enhanced" /\ call.op = "calculate" /\ ~IsFinite(call.deltaTime))
    => /\ IsFinite(pid.integral)
       /\ IsFinite(pid.filteredDerivative)
       /\ IsFinite(pid.lastOutput)
       /\ IsFinite(call.ret)

\* whether s is an initial part of t
IsPrefix(s, t) == Len(s) <= Len(t) /\ \A i \in 1..Len(s) : s[i] = t[i]

\* C8: a tick reads the measurement, computes the controller output, applies
\* it as torque and then advances the physics, in that order
C8_TickOrder == IsPrefix(tick.ops, <<"measure", "calculate", "setTorque", "step">>)

\* C9: once a tick has applied the torque, the torque stored in the robot is
\* the output the controller computed in that tick, a finite number within
\* the output limits
C9_TorqueIsControllerOutput ==
    pc = "display"
    => /\ robot.torque = ReturnedOutput(tick.pidResult)
       /\ IsFinite(robot.torque)
       /\ OutputInRange(robot.torque)

\* C10: in every tick the timestep of the physics step and the timestep of
\* the controller evaluation are at most the cap (0.1 s, 0.02 s for the
\* physics of the older variant)
C10_TimestepCapped ==
    /\ tick.physDt # Undefined =>
          Le(tick.physDt, IF robotVariant = "new" THEN Fin(100) ELSE Fin(20))
    /\ tick.ctlDt # Undefined => Le(tick.ctlDt, Fin(100))

\* what the trajectory of a run is made of: the physical state of the robot
\* and the gains and accumulators of the controller
Trajectory(p, r) ==
    [angle |-> r.angle,
     angularVelocity |-> r.angularVelocity,
     angularAcceleration |-> r.angularAcceleration,
     position |-> r.position,
     velocity |-> r.velocity,
     torque |-> r.torque,
     disturbanceForce |-> r.disturbanceForce,
     kp |-> p.kp, ki |-> p.ki, kd |-> p.kd,
     setpoint |-> p.setpoint,
     integral |-> p.integral,
     previousError |-> p.previousError,
     lastOutput |-> IF pidVariant = "enhanced" THEN p.lastOutput ELSE Undefined,
     filteredDerivative |-> IF pidVariant = "enhanced" THEN p.filteredDerivative
                            ELSE Undefined]

\* C11 as stated: two runs from the same initial state that are given the
\* same elapsed times, gain changes, disturbances and resets are in the same
\* state (angle, velocities, integral, lastOutput, ...) after every operation
C11_Determinism ==
    twin # NoTwin => Trajectory(pid, robot) = Trajectory(twin.pid, twin.robot)

\* C11, amended: the two runs are in the same state after every operation as
\* long as every reset() drew the same angle from Math.random() in both (the
\* newer robot draws none)
C11_DeterminismGivenDraws ==
    (twin # NoTwin /\ twin.sameDraws)
        => Trajectory(pid, robot) = Trajectory(twin.pid, twin.robot)

\* two runs with different clocks that were reset to the same tilted angle
\* and then ticked and moved
C11_Witness ==
    /\ twin # NoTwin
    /\ twin.sameDraws
    /\ twin.offset # 0
    /\ robotVariant = "old"
    /\ twin.resets > 0
    /\ twin.ticks > 0
    /\ robot.angularVelocity \notin {Zero, NaN}
    /\ Trajectory(pid, robot) = Trajectory(twin.pid, twin.robot)

\* resetSimulation() run twice at clock reading t, with the draws random1 and
\* random2, next to resetSimulation() run once with the draw random1
ResetTwice(random1, random2, t) ==
    CHOOSE x \in {resetSimulation(once.pid, once.robot, random2, t) :
                     once \in {resetSimulation(pid, robot, random1, t)}} : TRUE

ResetOnce(random1, t) == resetSimulation(pid, robot, random1, t)

\* C12 as stated: from every reachable state, the controller and the robot
\* after reset(); reset() are what they are after one reset()
C12_ResetIdempotent ==
    \A random1 \in RandomAngles, random2 \in RandomAngles :
        ResetTwice(random1, random2, now) = ResetOnce(random1, now)

\* C12, amended: the controller after reset(); reset() is what it is after one
\* reset(); so is the robot apart from its angle, and so is the angle when
\* reset() sets it to zero or draws the same value again
C12_ResetIdempotentUpToDraw ==
    \A random1 \in RandomAngles, random2 \in RandomAngles :
        \E twice \in {ResetTwice(random1, random2, now)}, once \in {ResetOnce(random1, now)} :
            /\ twice.pid = once.pid
            /\ [twice.robot EXCEPT !.angle = Zero] = [once.robot EXCEPT !.angle = Zero]
            /\ (robotVariant = "new" \/ random1 = random2) => twice.robot.angle = once.robot.angle

\* a controller with a charged integral and a history, and a tilted, moving
\* robot under a disturbance: reset() changes both
C12_Witness ==
    /\ pid.integral \notin {Zero, NaN}
    /\ pid.errorHistory # << >>
    /\ robot.angle \notin {Zero, NaN}
    /\ robot.disturbanceForce # Zero
    /\ ResetOnce(Zero, now).pid # pid
    /\ ResetOnce(Zero, now).robot # robot
    /\ ResetTwice(Zero, Zero, now) = ResetOnce(Zero, now)

\* the step is a call of autoTune on the controller
IsAutoTune ==
    /\ steps' = steps + 1
    /\ now' = now
    /\ call'.op = "autoTune"

\* C13: after autoTune, whether it reports success or failure, integral,
\* filteredDerivative and previousError are what they were before the call
C13_AutoTuneRestoresAccumulators ==
    [][IsAutoTune =>
          /\ pid'.integral = pid.integral
          /\ pid'.filteredDerivative = pid.filteredDerivative
          /\ pid'.previousError = pid.previousError]_vars

\* autoTune has run its calculate calls on a controller whose three
\* accumulators were all nonzero, and has tuned the gains
C13_Witness ==
    /\ call.op = "autoTune"
    /\ call.ret.success
    /\ call.prev = "calculate"
    /\ pid.integral \notin {Zero, NaN}
    /\ pid.filteredDerivative \notin {Zero, NaN}
    /\ pid.previousError \notin {Zero, NaN}
    /\ Len(pid.errorHistory) > 1
    /\ pid.lastOutput # call.before

\* the gains of a controller
GainsOf(p) == <<p.kp, p.ki, p.kd>>

\* C14 as stated: when autoTune has left the gains as they were, lastOutput
\* and the stored setpoint are what they were before it, and the next
\* calculate(setpoint, measurement, dt) returns what it would have returned
\* without the autoTune call
C14_LiveControlUnaffected ==
    [][(IsAutoTune /\ GainsOf(pid') = GainsOf(pid)) =>
          /\ pid'.lastOutput = pid.lastOutput
          /\ pid'.setpoint = pid.setpoint
          /\ \A a \in TuneCalculateArgs :
                 calculate(pid', a[1], a[2], a[3], now).output
                     = calculate(pid, a[1], a[2], a[3], now).output]_vars

\* C15: autoTune called with the setpoint equal to the process variable
\* reports success: false and leaves kp, ki and kd as they were, whatever
\* state the controller is in
C15_ZeroErrorTuneFails ==
    [][(IsAutoTune /\ call'.setpoint = call'.currentValue) =>
          /\ call'.ret.success = FALSE
          /\ GainsOf(pid') = GainsOf(pid)]_vars

\* autoTune with zero error has failed on a controller that came out of a
\* calculate call with a charged integral and derivative, its loop having
\* moved the output
C15_Witness ==
    /\ call.op = "autoTune"
    /\ call.prev = "calculate"
    /\ call.setpoint = call.currentValue
    /\ call.setpoint # Zero
    /\ call.ret.success = FALSE
    /\ pid.integral \notin {Zero, NaN}
    /\ pid.filteredDerivative \notin {Zero, NaN}
    /\ pid.lastOutput # call.before

\* C16: autoTune changes kp, ki, kd exactly when it reports success: true,
\* and it reports success exactly when at least 4 qualifying zero-crossings of
\* the output were detected (2 full cycles in its report); on every failure
\* the gains are what they were
C16_GainsChangeIffSuccess ==
    [][IsAutoTune =>
          /\ call'.ret.success <=> (GainsOf(pid') # GainsOf(pid))
          /\ call'.ret.success <=> (call'.ret.cycles >= 2)
          /\ call'.ret.newParams = [kp |-> pid'.kp, ki |-> pid'.ki, kd |-> pid'.kd]]_vars

\* autoTune has detected 4 crossings, reported success and installed finite
\* gains that are none of the gains it could have started with
C16_Witness ==
    /\ call.op = "autoTune"
    /\ call.ret.success
    /\ call.ret.cycles = 2
    /\ call.ret.amplitude \notin {Zero, NaN}
    /\ GainsOf(pid) \notin TuneGains
    /\ \A i \in 1..3 : IsFinite(GainsOf(pid)[i]) /\ GainsOf(pid)[i] # Zero

\* the upper end of the integral band of the loaded controller
IntegralMaxOf == IF pidVariant = "enhanced" THEN integralMax ELSE basicIntegralMax

\* the number of calls after which an accumulator that gains at least
\* 30 per call has crossed the band of the loaded controller
WindupWithin == IF pidVariant = "enhanced" THEN 4 ELSE 7

\* C17: once a constant positive error is sustained with a fixed positive
\* timestep, the integral is at integralMax after a bounded number of calls
\* and stays there after every later call
C17_Windup ==
    /\ (pc = "windup") ~> [](pid.integral = IntegralMaxOf)
    /\ []((pc = "windup" /\ steps >= WindupWithin) => pid.integral = IntegralMaxOf)

\* an integral that started below zero has reached the limit and has been
\* held there through further calls
C17_Witness ==
    /\ pc = "windup"
    /\ steps >= WindupWithin + 2
    /\ pid.integral = IntegralMaxOf
    /\ call.before = IntegralMaxOf
    /\ \E i \in 1..Len(pid.errorHistory) : Lt(pid.errorHistory[i], Zero)

\* x * 0.95^n, one multiplication after the other
RECURSIVE Decayed(_, _)
Decayed(x, n) == IF n = 0 THEN x ELSE Mul(Decayed(x, n - 1), Fin(950))

\* the number of positive entries of a sequence of integers
RECURSIVE Positives(_)
Positives(s) ==
    IF s = << >> THEN 0
    ELSE Positives(Tail(s)) + (IF Head(s) > 0 THEN 1 ELSE 0)

\* C18 as stated: n ticks after applyDisturbance(force), without another
\* injection or a reset, disturbanceForce is force * 0.95^n
C18_DecayEveryTick ==
    robot.disturbanceForce = Decayed(tick.force, Len(tick.ops))

\* C18, amended: disturbanceForce is force * 0.95^n, n counting the ticks
\* since the injection whose timestep was positive
C18_DecayEveryEffectiveTick ==
    robot.disturbanceForce = Decayed(tick.force, Positives(tick.ops))

\* applyDisturbance(5), then three effective ticks and a skipped one
C18_Witness ==
    /\ tick.force = Fin(5000)
    /\ Len(tick.ops) = 4
    /\ Positives(tick.ops) = 3
    /\ robot.disturbanceForce = Fin(4287)

\* the step is a call of applyDisturbance on the robot
IsApplyDisturbance ==
    /\ steps' = steps + 1
    /\ now' = now
    /\ call'.op = "robot.applyDisturbance"

\* C19: update() (skipped or not), setTorque() and reset() never increase the
\* magnitude of disturbanceForce; applyDisturbance(force) sets it to force,
\* whatever it was
C19_DisturbanceNonIncreasing ==
    [][IF IsApplyDisturbance
       THEN robot'.disturbanceForce = call'.currentValue
       ELSE Le(MathAbs(robot'.disturbanceForce), MathAbs(robot.disturbanceForce))]_vars

\* a robot set moving by an earlier disturbance alone, which has decayed in
\* update(), is given the smallest disturbance and holds exactly that
C19_Witness ==
    /\ robotVariant = "new"
    /\ call.op = "robot.applyDisturbance"
    /\ call.prev = "robot.update"
    /\ robot.torque = Zero
    /\ robot.angularVelocity \notin {Zero, NaN}
    /\ call.currentValue = Fin(3000)
    /\ robot.disturbanceForce = Fin(3000)

\* the step is a call of setGains or setParameters on the controller
IsSetGains ==
    /\ steps' = steps + 1
    /\ now' = now
    /\ call'.op \in {"setGains", "setParameters"}

\* C20: setGains and setParameters install the three gains they are given
\* and leave every other field of the controller (integral, previousError,
\* filteredDerivative, lastOutput, setpoint, both histories) as it was
C20_SetGainsChangesOnlyGains ==
    [][IsSetGains =>
          /\ GainsOf(pid') \in Gains
          /\ [pid' EXCEPT !.kp = pid.kp, !.ki = pid.ki, !.kd = pid.kd] = pid]_vars

\* new gains have been set on a controller that came out of a call with a
\* charged integral, a stored error and filled histories
C20_Witness ==
    /\ call.op \in {"setGains", "setParameters"}
    /\ call.prev \in {"calculate", "update"}
    /\ GainsOf(pid) \in Gains
    /\ pid.integral \notin {Zero, NaN}
    /\ pid.previousError \notin {Zero, NaN}
    /\ pid.errorHistory # << >>
    /\ pid.outputHistory # << >>

\* the step is a call of reset on the controller
IsControllerReset ==
    /\ steps' = steps + 1
    /\ now' = now
    /\ call'.op = "reset"

\* the accumulators of the loaded controller are zero and its histories empty
ControllerCleared(p) ==
    /\ p.previousError = Zero
    /\ p.integral = Zero
    /\ p.errorHistory = << >>
    /\ p.outputHistory = << >>
    /\ pidVariant = "enhanced" => (p.filteredDerivative = Zero /\ p.lastOutput = Zero)

\* C21: reset() zeroes previousError, integral, filteredDerivative and
\* lastOutput and empties both histories, from whatever state it is called
\* in, and leaves the gains (and the setpoint) as they were
C21_ResetClearsController ==
    [][IsControllerReset =>
          /\ ControllerCleared(pid')
          /\ GainsOf(pid') = GainsOf(pid)
          /\ pid'.setpoint = pid.setpoint
          /\ pid'.lastTime = now]_vars

\* reset() has been called on a controller that came out of a call with a
\* nonzero output, and after new gains were set
C21_Witness ==
    /\ call.op = "reset"
    /\ call.prev \in {"calculate", "update", "autoTune"}
    /\ call.before \notin {Zero, NaN}
    /\ ControllerCleared(pid)
    /\ pid.kp # Zero

\* the physics state is the initial condition, the angle apart
RobotCleared(r) ==
    /\ r.angularVelocity = Zero
    /\ r.angularAcceleration = Zero
    /\ r.position = Zero
    /\ r.velocity = Zero
    /\ r.torque = Zero
    /\ r.disturbanceForce = Zero

\* C22: after the simulator's reset (the Reset button or the R key), from any
\* reachable state, the angular velocity, angular acceleration, position,
\* velocity, torque and disturbance force of the robot are 0, the controller's
\* accumulators are 0 and both its histories are empty
C22_ResetSimulationClears ==
    [][(ResetSimulation \/ HandleKeyboard("r")) =>
          /\ RobotCleared(robot')
          /\ ControllerCleared(pid')
          /\ ~app'.isRunning]_vars

\* a reset after a tick of the enhanced controller, which left a sample in
\* the history
C22_Witness ==
    /\ pc = "idle"
    /\ pidVariant = "enhanced"
    /\ \E i \in DOMAIN tick.ops : tick.ops[i] = "calculate"
    /\ RobotCleared(robot)
    /\ ControllerCleared(pid)
    /\ robot.lastTime = now
    /\ ~app.isRunning

\* the step is a call on the controller
IsControllerCall ==
    /\ steps' = steps + 1
    /\ now' = now

\* new holds the most recent entries of old followed by n pushed entries, in
\* order: its first Len(new) - n entries are the last entries of old, and
\* entries of old are missing only when new is at capacity
Recent(old, new, n) ==
    \E kept \in {Len(new) - n} :
        /\ kept >= 0
        /\ kept <= Len(old)
        /\ \A i \in 1..kept : new[i] = old[Len(old) - kept + i]
        /\ Len(new) = maxHistoryLength \/ kept = Len(old)

\* the numbers of entries the call can have pushed
Pushed ==
    IF call'.op = "autoTune" THEN 0..autoTuneSteps
    ELSE IF call'.op \in {"calculate", "update"}
         THEN IF pidVariant = "enhanced" \/ call'.ret.k = "object" THEN {1} ELSE {0}
    ELSE {0}

HistoryBounded ==
    /\ Len(pid.errorHistory) <= maxHistoryLength
    /\ Len(pid.outputHistory) <= maxHistoryLength
    /\ Len(pid.outputHistory) = Len(pid.errorHistory)

\* C23: the lengths of errorHistory and outputHistory never exceed
\* maxHistoryLength, whatever calculate, update and autoTune calls are made;
\* every call but reset leaves in them the most recent samples in order, the
\* oldest ones being dropped at capacity, and a calculate or update that
\* stores a sample stores its error last
C23_HistoryBounded ==
    /\ []HistoryBounded
    /\ [][(IsControllerCall /\ call'.op # "reset") =>
             /\ \E n \in Pushed :
                   /\ Recent(pid.errorHistory, pid'.errorHistory, n)
                   /\ Recent(pid.outputHistory, pid'.outputHistory, n)
                   /\ (n = 1 /\ call'.op # "autoTune") =>
                         pid'.errorHistory[Len(pid'.errorHistory)] =
                             Sub(call'.setpoint, call'.currentValue)]_vars

\* an update pushed its sample on a full history: the oldest sample of the
\* run is gone, the second oldest is first
C23_Witness ==
    /\ call.op = "update"
    /\ call.prev \in {"new", "update"}
    /\ call.ret.k \in {"object", "fin"}
    /\ Len(pid.errorHistory) = maxHistoryLength
    /\ pid.errorHistory[maxHistoryLength] = Sub(call.setpoint, call.currentValue)
    /\ pid.errorHistory[1] = Sub(Zero, Fin(2002))

\* the operations of the read surface
ReadOps ==
    {"getState", "getPerformanceMetrics", "getStabilityStatus", "getRMSError",
     "getErrorTrend", "getSettlingTime", "getOvershoot"}

\* the step is a call of the read surface
IsRead ==
    /\ steps' = steps + 1
    /\ now' = now
    /\ call'.op \in ReadOps

\* what the controller p returns for the measurement v one frame later
NextOutput(p, v) ==
    IF pidVariant = "enhanced" THEN update(p, v, now + 16).output
    ELSE basicUpdate(p, v, now + 16).result

\* C24: getState, getPerformanceMetrics, getStabilityStatus, getRMSError,
\* getErrorTrend, getSettlingTime and getOvershoot leave every field of the
\* controller and of the physics state as it was, so that the next control
\* output and the next physics step are what they would have been without
\* the call
C24_ReadsChangeNothing ==
    [][IsRead =>
          /\ pid' = pid
          /\ robot' = robot
          /\ \A v \in Measurements : NextOutput(pid', v) = NextOutput(pid, v)
          /\ robotUpdate(robot', now + 16) = robotUpdate(robot, now + 16)]_vars

\* the metrics were read from a controller with 50 samples and more, right
\* after an update
C24_Witness ==
    /\ call.op = "getPerformanceMetrics"
    /\ call.prev = "update"
    /\ pidVariant = "enhanced"
    /\ Len(pid.errorHistory) >= 50
    /\ call.ret.stability # "Initializing"
    /\ call.ret.rmse # Zero

\* the mean absolute error of the last 10 samples of a history
MeanAbsOfLast10(h) ==
    Div(sumOf([i \in 1..10 |-> MathAbs(h[Len(h) - 10 + i])]), Fin(10 * SCALE))

\* the classes from the most stable to the least
StabilityRank(class) ==
    CASE class = "Very Stable" -> 1
      [] class = "Stable" -> 2
      [] class = "Settling" -> 3
      [] class = "Oscillating" -> 4
      [] class = "Unstable" -> 5
      [] OTHER -> 0

\* the class the thresholds 0.1, 0.3, 1.0 and 3.0 give a mean absolute error
ClassOfMean(m) ==
    IF Lt(m, Fin(100)) THEN 1
    ELSE IF Lt(m, Fin(300)) THEN 2
    ELSE IF Lt(m, Fin(1000)) THEN 3
    ELSE IF Lt(m, Fin(3000)) THEN 4
    ELSE 5

\* C25: getStabilityStatus returns 'Initializing' whenever fewer than 10
\* error samples are stored, and otherwise the class of the mean absolute
\* error m of the last 10 samples: Very Stable for m < 0.1, Stable for
\* m < 0.3, Settling for m < 1.0, Oscillating for m < 3.0, else Unstable
C25_StabilityStatus ==
    call.op = "getStabilityStatus" =>
        IF Len(pid.errorHistory) < 10
        THEN call.ret.s = "Initializing"
        ELSE StabilityRank(call.ret.s) = ClassOfMean(MeanAbsOfLast10(pid.errorHistory))

\* the number of samples getErrorTrend(window) works on when the history has
\* at least window samples
TrendSamples(window) == IF window.v = 0 THEN Len(pid.errorHistory) ELSE window.v \div SCALE

\* n * sum(x^2) - (sum x)^2 for x = 0 .. n-1
RegressionDenominator(n) ==
    n * sumInts([i \in 1..n |-> (i - 1) * (i - 1)], 0, n)
        - sumInts([i \in 1..n |-> i - 1], 0, n) * sumInts([i \in 1..n |-> i - 1], 0, n)

\* C26: getErrorTrend(window) returns 0 whenever the history holds fewer
\* than window samples and whenever the regression denominator
\* n * sum(x^2) - (sum x)^2 is zero (window = 1); it never returns NaN or an
\* infinite value
C26_ErrorTrendFinite ==
    call.op = "getErrorTrend" =>
        /\ IsFinite(call.ret)
        /\ Len(pid.errorHistory) < call.currentValue.v \div SCALE => call.ret = Zero
        /\ (pidVariant = "enhanced"
               /\ RegressionDenominator(TrendSamples(call.currentValue)) = 0) =>
              call.ret = Zero

\* C27: constructing the physics model without a canvas, without a usable 2D
\* context or without a valid controller raises an error at construction
\* time
C27_ConstructionFailsFast ==
    (/\ call.op \in {"new BalancingRobot", "createDefault"}
     /\ \/ call.ret.canvas = "none"
        \/ call.ret.canvas = "noContext"
        \/ call.ret.pidController # "controller")
        => call.ret.k = "error"

\* C28: every physics step with a valid timestep advances the lateral
\* position by the velocity after ground friction times the timestep
\* (position' = position + velocity' * dt), and the position changes in
\* update() and reset() only
C28_PositionIntegrated ==
    [][/\ (IsRobotUpdate /\ IsFinite(call'.deltaTime) /\ Gt(call'.deltaTime, Zero)) =>
              robot'.position = Add(robot.position, Mul(robot'.velocity, call'.deltaTime))
       /\ robot'.position # robot.position =>
              (steps' = steps + 1 /\ call'.op \in {"robot.update", "robot.reset"})]_vars

\* C29: whatever the interleaving of start, pause, reset, Space presses and
\* animation-frame callbacks, at most one requestAnimationFrame callback is
\* pending, a callback is pending only while isRunning is true, and a start
\* while running schedules nothing and runs no tick
C29_OneAnimationLoop ==
    /\ [](Cardinality(frames) <= 1 /\ (frames # {} => app.isRunning))
    /\ [][(app.isRunning /\ StartSimulation) =>
             (frames' = frames /\ pc' = "idle" /\ app' = app)]_vars

\* the loop is at its third frame or beyond, after a start while running, a
\* pause or a reset: one callback is pending, the one animationId names
C29_Witness ==
    /\ pc = "idle"
    /\ app.isRunning
    /\ frames = {app.animationId}
    /\ app.animationId >= 2
    /\ steps >= 3

\* the step belongs to a tick: it is a step of a running animate() call
InTick == pc # "idle"

\* C30: a physics step or controller evaluation of the loop happens only
\* while isRunning is true, so none after pauseSimulation or resetSimulation
\* until the next start; pause and reset leave the simulator not running
\* with no tick under way; each Space press flips isRunning; the Start
\* button is disabled exactly while the simulator runs
C30_TicksOnlyWhileRunning ==
    /\ [](/\ InTick => app.isRunning
          /\ app.startBtnDisabled = app.isRunning)
    /\ [][/\ (robot' # robot \/ pid' # pid) =>
                (app.isRunning \/ pc = "idle")
          /\ (~app.isRunning /\ ~app'.isRunning) =>
                (pc' = "idle" /\ tick' = tick)
          /\ (PauseSimulation \/ ResetSimulation \/ HandleKeyboard("r")) =>
                (~app'.isRunning /\ pc' = "idle" /\ frames' = {})
          /\ HandleKeyboard(" ") => app'.isRunning = ~app.isRunning]_vars

\* paused by Space after a tick, nothing pending
C30_Witness ==
    /\ pc = "idle"
    /\ ~app.isRunning
    /\ ~app.startBtnDisabled
    /\ frames = {}
    /\ app.animationId = 0
    /\ app.nextFrame >= 2
    /\ \E i \in DOMAIN tick.ops : tick.ops[i] = "calculate"

====
